---- MODULE Spec2Model ----
(***************************************************************************)
(* Verification model of the photo-org search API: the cursor codec        *)
(* (app/core/pagination.py), the filter compiler, keyset pagination and    *)
(* hydration of PhotosRepository (app/repositories/photos_repo.py), the    *)
(* query builder (app/repositories/query_builder.py) and the inline        *)
(* SearchService.execute (app/services/search_service.py).                 *)
(*                                                                         *)
(* Strings are sequences of code points, so that formatting, parsing and   *)
(* base64 are computed character by character, as the code computes them.  *)
(***************************************************************************)
EXTENDS Integers, Sequences, FiniteSets, TLC

(***************************************************************************)
(* Strings                                                                 *)
(***************************************************************************)

\* The printable ASCII characters, code points 32..126, in order (the grave
\* accent, code point 96, is spelled out: it cannot be written in a string here).
Printable ==
  << " ", "!", "\"", "#", "$", "%", "&", "'", "(", ")", "*", "+", ",", "-", ".", "/",
     "0", "1", "2", "3", "4", "5", "6", "7", "8", "9", ":", ";", "<", "=", ">", "?",
     "@", "A", "B", "C", "D", "E", "F", "G", "H", "I", "J", "K", "L", "M", "N", "O",
     "P", "Q", "R", "S", "T", "U", "V", "W", "X", "Y", "Z", "[", "\\", "]", "^", "_",
     "grave", "a", "b", "c", "d", "e", "f", "g", "h", "i", "j", "k", "l", "m", "n", "o",
     "p", "q", "r", "s", "t", "u", "v", "w", "x", "y", "z", "{", "|", "}", "~" >>

\* Code point of a one-character string.
Ord(c) == 31 + (CHOOSE i \in 1..Len(Printable) : Printable[i] = c)

\* A Python str literal, written as the tuple of its characters.
Str(cs) == <<>> \o [i \in 1..Len(cs) |-> Ord(cs[i])]

\* Lexicographic order on strings (Python's and the database's binary collation).
StrLess(a, b) ==
  LET n == IF Len(a) < Len(b) THEN Len(a) ELSE Len(b)
  IN IF \E i \in 1..n : a[i] # b[i]
     THEN LET k == CHOOSE i \in 1..n : a[i] # b[i] /\ \A j \in 1..(i - 1) : a[j] = b[j]
          IN a[k] < b[k]
     ELSE Len(a) < Len(b)

\* s[i:i+len(p)] == p
MatchAt(s, i, p) ==
  /\ i + Len(p) - 1 <= Len(s)
  /\ \A k \in 1..Len(p) : s[i + k - 1] = p[k]

\* str.find(p): index of the first occurrence of p in s, 0 when there is none.
Find(s, p) ==
  IF \E i \in 1..Len(s) : MatchAt(s, i, p)
  THEN CHOOSE i \in 1..Len(s) : MatchAt(s, i, p) /\ \A j \in 1..(i - 1) : ~MatchAt(s, j, p)
  ELSE 0

\* str.replace(old, new): every non-overlapping occurrence, left to right.
RECURSIVE Replace(_, _, _)
Replace(s, old, new) ==
  LET k == Find(s, old)
  IN IF k = 0 THEN s
     ELSE SubSeq(s, 1, k - 1) \o new \o Replace(SubSeq(s, k + Len(old), Len(s)), old, new)

\* str.find(ch): index of the first occurrence, 0 when there is none.
FirstIndex(s, ch) ==
  IF \E i \in 1..Len(s) : s[i] = ch
  THEN CHOOSE i \in 1..Len(s) : s[i] = ch /\ \A j \in 1..(i - 1) : s[j] # ch
  ELSE 0

\* str.lower() on ASCII letters.
Lower(s) == <<>> \o [i \in 1..Len(s) |-> IF s[i] >= 65 /\ s[i] <= 90 THEN s[i] + 32 ELSE s[i]]


\* A non-negative integer as exactly w decimal digits (format spec 0wd).
Digits(n, w) == <<>> \o [i \in 1..w |-> 48 + ((n \div (10 ^ (w - i))) % 10)]

IsDigit(c) == c >= 48 /\ c <= 57

\* int() of a digit string.
RECURSIVE ParseInt(_)
ParseInt(s) ==
  IF Len(s) = 0 THEN 0
  ELSE IF Len(s) = 1 THEN s[1] - 48
  ELSE LET h == Len(s) \div 2
       IN ParseInt(SubSeq(s, 1, h)) * (10 ^ (Len(s) - h)) + ParseInt(SubSeq(s, h + 1, Len(s)))

AllDigits(s) == \A i \in 1..Len(s) : IsDigit(s[i])

(***************************************************************************)
(* Optional values                                                         *)
(***************************************************************************)
None == [some |-> FALSE]
Some(v) == [some |-> TRUE, v |-> v]

(***************************************************************************)
(* datetime: wall-clock fields plus tzinfo (aware, with a UTC offset in    *)
(* minutes, or naive).                                                     *)
(***************************************************************************)
DateTime(y, mo, d, h, mi, s, us, aware, off) ==
  [y |-> y, mo |-> mo, d |-> d, h |-> h, mi |-> mi, s |-> s, us |-> us,
   aware |-> aware, off |-> off]

\* A NULL column value (Python None where a datetime is expected).
NullTs == [null |-> TRUE]
IsNull(x) == "null" \in DOMAIN x

IsLeap(y) == (y % 4 = 0 /\ y % 100 # 0) \/ y % 400 = 0
DaysInMonth(y, m) ==
  IF m = 2 THEN (IF IsLeap(y) THEN 29 ELSE 28)
  ELSE IF m \in {4, 6, 9, 11} THEN 30 ELSE 31

\* Proleptic Gregorian day number relative to 1970-01-01.
DaysFromCivil(y, m, d) ==
  LET yy  == IF m <= 2 THEN y - 1 ELSE y
      era == yy \div 400
      yoe == yy - era * 400
      mp  == IF m > 2 THEN m - 3 ELSE m + 9
      doy == (153 * mp + 2) \div 5 + d - 1
      doe == yoe * 365 + yoe \div 4 - yoe \div 100 + doy
  IN era * 146097 + doe - 719468

\* The inverse: <<year, month, day>> of a day number.
CivilFromDays(z) ==
  LET zz  == z + 719468
      era == zz \div 146097
      doe == zz - era * 146097
      yoe == (doe - doe \div 1460 + doe \div 36524 - doe \div 146096) \div 365
      doy == doe - (365 * yoe + yoe \div 4 - yoe \div 100)
      mp  == (5 * doy + 2) \div 153
      d   == doy - (153 * mp + 2) \div 5 + 1
      m   == IF mp < 10 THEN mp + 3 ELSE mp - 9
      y   == yoe + era * 400 + (IF m <= 2 THEN 1 ELSE 0)
  IN <<y, m, d>>

\* The instant a datetime denotes, <<day, second of day, microsecond>> in UTC;
\* the database and Python compare instants. A naive value is read as UTC.
Instant(dt) ==
  LET secs == dt.h * 3600 + dt.mi * 60 + dt.s - dt.off * 60
      day  == DaysFromCivil(dt.y, dt.mo, dt.d) + (IF secs < 0 THEN -1 ELSE IF secs >= 86400 THEN 1 ELSE 0)
      sod  == IF secs < 0 THEN secs + 86400 ELSE IF secs >= 86400 THEN secs - 86400 ELSE secs
  IN <<day, sod, dt.us>>

InstantLess(a, b) ==
  \/ a[1] < b[1]
  \/ a[1] = b[1] /\ a[2] < b[2]
  \/ a[1] = b[1] /\ a[2] = b[2] /\ a[3] < b[3]

\* dt.astimezone(timezone.utc) of an aware datetime.
AsTimezoneUtc(dt) ==
  LET i   == Instant(dt)
      ymd == CivilFromDays(i[1])
  IN DateTime(ymd[1], ymd[2], ymd[3], i[2] \div 3600, (i[2] % 3600) \div 60, i[2] % 60,
              dt.us, TRUE, 0)

\* datetime.isoformat(): microseconds only when non-zero, offset only when aware.
Isoformat(dt) ==
  LET a   == IF dt.off < 0 THEN -dt.off ELSE dt.off
      tz  == IF dt.aware
             THEN <<(IF dt.off < 0 THEN 45 ELSE 43)>> \o Digits(a \div 60, 2) \o <<58>> \o Digits(a % 60, 2)
             ELSE <<>>
      us  == IF dt.us # 0 THEN <<46>> \o Digits(dt.us, 6) ELSE <<>>
  IN ((Digits(dt.y, 4) \o <<45>> \o Digits(dt.mo, 2)) \o (<<45>> \o Digits(dt.d, 2) \o <<84>>))
     \o ((Digits(dt.h, 2) \o <<58>> \o Digits(dt.mi, 2)) \o (<<58>> \o Digits(dt.s, 2)) \o (us \o tz))

\* datetime.fromisoformat() on the layout isoformat() writes,
\* YYYY-MM-DDTHH:MM:SS[.ffffff][+HH:MM]; anything else is a ValueError.
FromIsoformat(s) ==
  LET n      == Len(s)
      head   == /\ n >= 19
                /\ AllDigits(SubSeq(s, 1, 4)) /\ s[5] = 45 /\ AllDigits(SubSeq(s, 6, 7))
                /\ s[8] = 45 /\ AllDigits(SubSeq(s, 9, 10)) /\ s[11] = 84
                /\ AllDigits(SubSeq(s, 12, 13)) /\ s[14] = 58 /\ AllDigits(SubSeq(s, 15, 16))
                /\ s[17] = 58 /\ AllDigits(SubSeq(s, 18, 19))
      frac   == n >= 26 /\ s[20] = 46 /\ AllDigits(SubSeq(s, 21, 26))
      p      == IF frac THEN 27 ELSE 20
      tzok   == /\ n = p + 5 /\ s[p] \in {43, 45} /\ AllDigits(SubSeq(s, p + 1, p + 2))
                /\ s[p + 3] = 58 /\ AllDigits(SubSeq(s, p + 4, p + 5))
      shape  == head /\ (n = p - 1 \/ tzok)
      y      == ParseInt(SubSeq(s, 1, 4))
      mo     == ParseInt(SubSeq(s, 6, 7))
      d      == ParseInt(SubSeq(s, 9, 10))
      h      == ParseInt(SubSeq(s, 12, 13))
      mi     == ParseInt(SubSeq(s, 15, 16))
      sec    == ParseInt(SubSeq(s, 18, 19))
      us     == IF frac THEN ParseInt(SubSeq(s, 21, 26)) ELSE 0
      offabs == ParseInt(SubSeq(s, p + 1, p + 2)) * 60 + ParseInt(SubSeq(s, p + 4, p + 5))
      off    == IF n = p - 1 THEN 0 ELSE IF s[p] = 45 THEN -offabs ELSE offabs
  IN IF /\ shape
        /\ y >= 1 /\ mo >= 1 /\ mo <= 12 /\ d >= 1 /\ d <= DaysInMonth(y, mo)
        /\ h <= 23 /\ mi <= 59 /\ sec <= 59
        /\ (n = p - 1 \/ (ParseInt(SubSeq(s, p + 1, p + 2)) <= 23 /\ ParseInt(SubSeq(s, p + 4, p + 5)) <= 59))
     THEN [ok |-> TRUE, dt |-> DateTime(y, mo, d, h, mi, sec, us, n # p - 1, off)]
     ELSE [ok |-> FALSE, error |-> "ValueError"]

(***************************************************************************)
(* base64 and UTF-8, as the standard library computes them                 *)
(***************************************************************************)

\* The URL-safe alphabet: A-Z a-z 0-9 - _
B64Char(v) ==
  IF v < 26 THEN 65 + v
  ELSE IF v < 52 THEN 97 + (v - 26)
  ELSE IF v < 62 THEN 48 + (v - 52)
  ELSE IF v = 62 THEN 45 ELSE 95

\* Character j of the encoding of bs: group g of three bytes gives four
\* characters, '=' where the group has no second or third byte.
B64EncodeChar(bs, j) ==
  LET g  == (j - 1) \div 4
      p  == (j - 1) % 4
      b1 == bs[3 * g + 1]
      b2 == IF 3 * g + 2 <= Len(bs) THEN bs[3 * g + 2] ELSE 0
      b3 == IF 3 * g + 3 <= Len(bs) THEN bs[3 * g + 3] ELSE 0
  IN IF p = 0 THEN B64Char(b1 \div 4)
     ELSE IF p = 1 THEN B64Char((b1 % 4) * 16 + b2 \div 16)
     ELSE IF p = 2 THEN (IF 3 * g + 2 > Len(bs) THEN 61 ELSE B64Char((b2 % 16) * 4 + b3 \div 64))
     ELSE (IF 3 * g + 3 > Len(bs) THEN 61 ELSE B64Char(b3 % 64))

\* base64.urlsafe_b64encode(bytes): three bytes to four characters, '=' padding.
UrlsafeB64Encode(bs) ==
  <<>> \o [j \in 1..(4 * ((Len(bs) + 2) \div 3)) |-> B64EncodeChar(bs, j)]

\* Value of a character after urlsafe_b64decode's translation of '-' and '_'
\* to '+' and '/'; 64 for a character outside the alphabet.
B64Val(c) ==
  IF c >= 65 /\ c <= 90 THEN c - 65
  ELSE IF c >= 97 /\ c <= 122 THEN c - 97 + 26
  ELSE IF c >= 48 /\ c <= 57 THEN c - 48 + 52
  ELSE IF c = 43 \/ c = 45 THEN 62
  ELSE IF c = 47 \/ c = 95 THEN 63
  ELSE 64

\* Positions of the alphabet characters among the first n characters of s.
DataIdx(s, n) == {i \in 1..n : B64Val(s[i]) < 64}

\* For a '=' at position i: quad_pos there, and the pads counted up to and
\* including it (pads restarts at every alphabet character).
QuadPos(s, i) == Cardinality(DataIdx(s, i - 1)) % 4
Pads(s, i) ==
  LET seen == DataIdx(s, i - 1)
      last == IF seen = {} THEN 0 ELSE CHOOSE x \in seen : \A y \in seen : y <= x
  IN Cardinality({j \in (last + 1)..i : s[j] = 61})

IsB64Data(c) == B64Val(c) < 64

\* The 6-bit values of the alphabet characters of s, in order.
B64Values(data) == <<>> \o [j \in 1..Len(data) |-> B64Val(data[j])]

\* Byte k of the decoding of the 6-bit values d.
B64DecodeByte(d, k) ==
  LET g == (k - 1) \div 3
      r == (k - 1) % 3
  IN IF r = 0 THEN d[4 * g + 1] * 4 + d[4 * g + 2] \div 16
     ELSE IF r = 1 THEN (d[4 * g + 2] % 16) * 16 + d[4 * g + 3] \div 4
     ELSE (d[4 * g + 3] % 4) * 64 + d[4 * g + 4]

\* The bytes of the 6-bit values d: three per full quad, one or two for a
\* quad of two or three characters.
B64Bytes(d) ==
  <<>> \o [k \in 1..((Len(d) \div 4) * 3 + (IF Len(d) % 4 = 2 THEN 1 ELSE IF Len(d) % 4 = 3 THEN 2 ELSE 0))
            |-> B64DecodeByte(d, k)]

\* Position of the '=' that completes a pad sequence and ends the input,
\* 0 when there is none.
PadStop(s) ==
  LET stops == {i \in 1..Len(s) : /\ s[i] = 61
                                   /\ QuadPos(s, i) >= 2
                                   /\ QuadPos(s, i) + Pads(s, i) >= 4}
  IN IF stops = {} THEN 0 ELSE CHOOSE x \in stops : \A y \in stops : x <= y

\* The outcome for the 6-bit values d read before the stop.
A2bResult(stop, d) ==
  IF stop = 0 /\ Len(d) % 4 # 0 THEN [ok |-> FALSE, error |-> "binascii.Error"]
  ELSE [ok |-> TRUE, bytes |-> B64Bytes(d)]

\* The alphabet characters read up to the stop.
A2bData(s, stop) == SelectSeq(SubSeq(s, 1, IF stop = 0 THEN Len(s) ELSE stop), IsB64Data)

\* binascii.a2b_base64 in its default non-strict mode: characters outside the
\* alphabet are skipped, a complete pad sequence ends the input, and leftover
\* characters of an unfinished quad are an error (binascii.Error).
A2bBase64(s) == A2bResult(PadStop(s), B64Values(A2bData(s, PadStop(s))))

UrlsafeB64Decode(s) == A2bBase64(s)

IsCont(b) == b >= 128 /\ b <= 191

\* Width of the UTF-8 sequence that starts at bs[k], 0 when it is invalid.
Utf8Width(bs, k) ==
  LET n == Len(bs) - k + 1
      c(i) == bs[k + i]
  IN IF bs[k] < 128 THEN 1
     ELSE IF bs[k] >= 194 /\ bs[k] <= 223 /\ n >= 2 /\ IsCont(c(1)) THEN 2
     ELSE IF /\ bs[k] >= 224 /\ bs[k] <= 239 /\ n >= 3 /\ IsCont(c(1)) /\ IsCont(c(2))
             /\ (bs[k] = 224 => c(1) >= 160) /\ (bs[k] = 237 => c(1) <= 159) THEN 3
     ELSE IF /\ bs[k] >= 240 /\ bs[k] <= 244 /\ n >= 4
             /\ IsCont(c(1)) /\ IsCont(c(2)) /\ IsCont(c(3))
             /\ (bs[k] = 240 => c(1) >= 144) /\ (bs[k] = 244 => c(1) <= 143) THEN 4
     ELSE 0

\* Code point of the valid sequence of width w that starts at bs[k].
Utf8CodePoint(bs, k, w) ==
  IF w = 1 THEN bs[k]
  ELSE IF w = 2 THEN (bs[k] - 192) * 64 + (bs[k + 1] - 128)
  ELSE IF w = 3 THEN (bs[k] - 224) * 4096 + (bs[k + 1] - 128) * 64 + (bs[k + 2] - 128)
  ELSE (bs[k] - 240) * 262144 + (bs[k + 1] - 128) * 4096 + (bs[k + 2] - 128) * 64 + (bs[k + 3] - 128)

\* bytes.decode(): the code points of a UTF-8 byte string, or UnicodeDecodeError.
\* A run of ASCII bytes is copied; each longer sequence is decoded in turn.
RECURSIVE Utf8Decode(_)
Utf8Decode(bs) ==
  IF \A i \in 1..Len(bs) : bs[i] < 128 THEN [ok |-> TRUE, str |-> bs]
  ELSE LET k    == CHOOSE i \in 1..Len(bs) : bs[i] >= 128 /\ \A j \in 1..(i - 1) : bs[j] < 128
           w    == Utf8Width(bs, k)
           rest == Utf8Decode(SubSeq(bs, k + w, Len(bs)))
       IN IF w = 0 THEN [ok |-> FALSE, error |-> "UnicodeDecodeError"]
          ELSE IF ~rest.ok THEN rest
          ELSE [ok |-> TRUE,
                str |-> SubSeq(bs, 1, k - 1) \o <<Utf8CodePoint(bs, k, w)>> \o rest.str]

(***************************************************************************)
(* app/core/pagination.py                                                  *)
(***************************************************************************)

\* iso_utc with the fault of replacing the tzinfo of an aware datetime instead
\* of converting it: the wall clock is kept and labelled UTC.
iso_utc_replace_tzinfo(dt) ==
  Replace(Isoformat([dt EXCEPT !.aware = TRUE, !.off = 0]),
          Str(<<"+", "0", "0", ":", "0", "0">>), Str(<<"Z">>))

\* iso_utc(dt): a naive datetime is taken as UTC, the value is converted to UTC
\* and rendered with a trailing Z.
iso_utc(dt) ==
  IF ~dt.aware
  THEN Replace(Isoformat(AsTimezoneUtc([dt EXCEPT !.aware = TRUE, !.off = 0])),
               Str(<<"+", "0", "0", ":", "0", "0">>), Str(<<"Z">>))
  ELSE Replace(Isoformat(AsTimezoneUtc(dt)), Str(<<"+", "0", "0", ":", "0", "0">>), Str(<<"Z">>))

\* encode_cursor(ts, photo_id): base64 of "<iso_utc(ts)>|<photo_id>".
\* str.encode() is the identity on the ASCII ids of this model.
encode_cursor(ts, photo_id) ==
  UrlsafeB64Encode(iso_utc(ts) \o Str(<<"|">>) \o photo_id)

\* decode_cursor, last line: fromisoformat of the timestamp part, and the pair.
DecodePair(ts, pid) ==
  IF ~ts.ok THEN [ok |-> FALSE, error |-> ts.error]
  ELSE [ok |-> TRUE, ts |-> ts.dt, pid |-> pid]

\* ts_s, pid = raw.split("|", 1): k is the position of the first separator;
\* without one the unpacking raises ValueError.
SplitRaw(raw, k) ==
  IF k = 0 THEN [ok |-> FALSE, error |-> "ValueError"]
  ELSE DecodePair(FromIsoformat(Replace(SubSeq(raw, 1, k - 1), Str(<<"Z">>),
                                        Str(<<"+", "0", "0", ":", "0", "0">>))),
                  SubSeq(raw, k + 1, Len(raw)))

\* .decode() of the bytes, then the split.
DecodeRaw(raw) ==
  IF ~raw.ok THEN [ok |-> FALSE, error |-> raw.error]
  ELSE SplitRaw(raw.str, FirstIndex(raw.str, 124))

\* The outcome of urlsafe_b64decode, then the rest of decode_cursor.
DecodeBytes(b) ==
  IF ~b.ok THEN [ok |-> FALSE, error |-> b.error]
  ELSE DecodeRaw(Utf8Decode(b.bytes))

\* decode_cursor(cur): the (timestamp, photo id) pair, or the exception raised.
decode_cursor(cur) == DecodeBytes(UrlsafeB64Decode(cur))

(***************************************************************************)
(* The persistence layer as the code meets it (SQLite, the configured       *)
(* default): three tables, NULLs that fail every comparison and sort before *)
(* every value, text compared byte by byte.                                 *)
(***************************************************************************)
VARIABLES
  photos,       \* rows of table photos (photo_id is the primary key)
  faces,        \* rows of table faces
  photo_tags,   \* rows of table photo_tags
  req,          \* the request being served
  resp,         \* what the last call returned or raised
  walk,         \* the pages returned so far by the current cursor walk
  cin,          \* codec: the (timestamp, id) pair handed to encode_cursor
  ctoken,       \* codec: the token handed to decode_cursor
  cout,         \* codec: what decode_cursor returned or raised
  requests,     \* HTTP requests: how far each has got and the session it was given
  sessions,     \* the sessions _SessionLocal() has created, in order of creation
  written       \* history: the photo ids inserted or deleted since the walk began

vars == <<photos, faces, photo_tags, req, resp, walk, cin, ctoken, cout, requests, sessions, written>>

\* Integers beyond 32 bits are pairs <<millions, units>>: 10^6 * hi + lo.
Big(hi, lo) == <<hi, lo>>
BigLess(a, b) == a[1] < b[1] \/ (a[1] = b[1] /\ a[2] < b[2])
BigGe(a, b) == ~BigLess(a, b)

\* if x: on an Optional[str] or Optional[List]
Truthy(o) == o.some /\ Len(o.v) > 0

\* column IN (values); NULL is in nothing
In(col, vals) == col.some /\ \E i \in 1..Len(vals) : vals[i] = col.v

\* SQLAlchemy's SQLite storage format of a DateTime column:
\* "YYYY-MM-DD HH:MM:SS.ffffff", the wall-clock fields without the offset.
SqliteDateTime(dt) ==
  ((Digits(dt.y, 4) \o <<45>> \o Digits(dt.mo, 2)) \o (<<45>> \o Digits(dt.d, 2) \o <<32>>))
  \o ((Digits(dt.h, 2) \o <<58>> \o Digits(dt.mi, 2)) \o (<<58>> \o Digits(dt.s, 2))
      \o (<<46>> \o Digits(dt.us, 6)))

\* shot_ts >= text(literal) and shot_ts <= text(literal): text comparison of the
\* stored value with the literal; a NULL shot_ts satisfies neither.
TsGeText(ts, lit) == ~IsNull(ts) /\ ~StrLess(SqliteDateTime(ts), lit)
TsLeText(ts, lit) == ~IsNull(ts) /\ ~StrLess(lit, SqliteDateTime(ts))

\* shot_ts < :param, shot_ts = :param, shot_ts > :param with a bound datetime.
\* Stored and bound values are both rendered as wall-clock UTC text of fixed
\* width, so the text order is the order of the instants.
TsLt(ts, p) == ~IsNull(ts) /\ InstantLess(Instant(ts), Instant(p))
TsEq(ts, p) == ~IsNull(ts) /\ Instant(ts) = Instant(p)
TsGt(ts, p) == ~IsNull(ts) /\ InstantLess(Instant(p), Instant(ts))

\* x LIKE pattern: % matches any run of characters, _ any one character.
RECURSIVE LikeMatch(_, _)
LikeMatch(s, pat) ==
  IF Len(pat) = 0 THEN Len(s) = 0
  ELSE IF pat[1] = 37
  THEN LikeMatch(s, Tail(pat)) \/ (Len(s) > 0 /\ LikeMatch(Tail(s), pat))
  ELSE /\ Len(s) > 0
       /\ (pat[1] = 95 \/ pat[1] = s[1])
       /\ LikeMatch(Tail(s), Tail(pat))

\* column.ilike(f"%{t}%")
ILikeContains(col, t) == LikeMatch(Lower(col), <<37>> \o Lower(t) \o <<37>>)

IsSpace(c) == c \in {9, 10, 11, 12, 13, 32}

\* str.split(): the maximal runs of non-whitespace characters.
RECURSIVE Split(_)
Split(s) ==
  IF \A i \in 1..Len(s) : IsSpace(s[i]) THEN <<>>
  ELSE LET a == CHOOSE i \in 1..Len(s) : ~IsSpace(s[i]) /\ \A j \in 1..(i - 1) : IsSpace(s[j])
           b == IF \E i \in a..Len(s) : IsSpace(s[i])
                THEN CHOOSE i \in a..Len(s) : IsSpace(s[i]) /\ \A j \in a..(i - 1) : ~IsSpace(s[j])
                ELSE Len(s) + 1
       IN <<SubSeq(s, a, b - 1)>> \o Split(SubSeq(s, b, Len(s)))

\* tokens = [t for t in text_query.lower().split() if t]
Tokens(q) == Split(Lower(q))

(***************************************************************************)
(* app/core/enums.py                                                        *)
(***************************************************************************)
\* bounds() with the fault of starting medium one byte late: 1,000,000 falls
\* in no range.
bounds_gap(range) ==
  IF range = "small" THEN <<Big(0, 0), Big(1, 0)>>
  ELSE IF range = "medium" THEN <<Big(1, 1), Big(5, 0)>>
  ELSE <<Big(5, 0), Big(10000, 0)>>

\* FilesizeRange.bounds(): (lo, hi) of small, medium, large.
bounds(range) ==
  IF range = "small" THEN <<Big(0, 0), Big(1, 0)>>
  ELSE IF range = "medium" THEN <<Big(1, 0), Big(5, 0)>>
  ELSE <<Big(5, 0), Big(10000, 0)>>

(***************************************************************************)
(* app/repositories/photos_repo.py: filters                                 *)
(***************************************************************************)
\* f"'{d}T00:00:00Z'" and f"'{d}T23:59:59Z'"
DayStartLiteral(d) == d \o Str(<<"T", "0", "0", ":", "0", "0", ":", "0", "0", "Z">>)
DayEndLiteral(d) == d \o Str(<<"T", "2", "3", ":", "5", "9", ":", "5", "9", "Z">>)

\* EXISTS (SELECT photo_id FROM faces WHERE faces.photo_id = photos.photo_id)
faces_subquery(fs, r) == \E f \in fs : f.photo_id = r.photo_id

\* EXISTS (... faces.person_id IN people)
people_subquery(fs, r, people) ==
  \E f \in fs : f.photo_id = r.photo_id /\ In(f.person_id, people)

\* tags_subquery with the fault of requiring every tag of the filter.
tags_subquery_every_tag(pt, r, tags) ==
  \A i \in 1..Len(tags) : \E t \in pt : t.photo_id = r.photo_id /\ tags[i] = t.tag

\* EXISTS (... photo_tags.tag IN tags)
tags_subquery(pt, r, tags) ==
  \E t \in pt : t.photo_id = r.photo_id /\ \E i \in 1..Len(tags) : tags[i] = t.tag

\* EXISTS (... OR over the tokens of photo_tags.tag ILIKE %token%)
tag_exists(pt, r, tokens) ==
  \E t \in pt : t.photo_id = r.photo_id /\ \E i \in 1..Len(tokens) : ILikeContains(t.tag, tokens[i])

\* _apply_filters with the fault of reading has_faces = False as "without
\* faces" instead of leaving the dimension out.
_apply_filters_has_faces_false(ph, fs, pt, filters, text_query) ==
  { r \in ph :
      /\ (filters.date.some /\ Truthy(filters.date.v.from))
            => TsGeText(r.shot_ts, DayStartLiteral(filters.date.v.from.v))
      /\ (filters.date.some /\ Truthy(filters.date.v.to))
            => TsLeText(r.shot_ts, DayEndLiteral(filters.date.v.to.v))
      /\ Truthy(filters.camera_make) => In(r.camera_make, filters.camera_make.v)
      /\ Truthy(filters.extension) => In(r.ext, filters.extension.v)
      /\ Truthy(filters.orientation) => In(r.orientation, filters.orientation.v)
      /\ filters.filesize_range.some
            => /\ r.filesize.some
               /\ BigGe(r.filesize.v, bounds(filters.filesize_range.v)[1])
               /\ BigLess(r.filesize.v, bounds(filters.filesize_range.v)[2])
      /\ filters.has_faces.some => (faces_subquery(fs, r) = filters.has_faces.v)
      /\ Truthy(filters.people) => people_subquery(fs, r, filters.people.v)
      /\ Truthy(filters.tags) => tags_subquery(pt, r, filters.tags.v)
      /\ (Truthy(text_query) /\ Len(Tokens(text_query.v)) > 0)
            => \/ ILikeContains(r.path, Tokens(text_query.v)[1])
               \/ tag_exists(pt, r, Tokens(text_query.v)) }

\* PhotosRepository._apply_filters: the rows of photos that satisfy the AND of
\* the where_conditions appended for the filters that are set.
_apply_filters(ph, fs, pt, filters, text_query) ==
  { r \in ph :
      /\ (filters.date.some /\ Truthy(filters.date.v.from))
            => TsGeText(r.shot_ts, DayStartLiteral(filters.date.v.from.v))
      /\ (filters.date.some /\ Truthy(filters.date.v.to))
            => TsLeText(r.shot_ts, DayEndLiteral(filters.date.v.to.v))
      /\ Truthy(filters.camera_make) => In(r.camera_make, filters.camera_make.v)
      /\ Truthy(filters.extension) => In(r.ext, filters.extension.v)
      /\ Truthy(filters.orientation) => In(r.orientation, filters.orientation.v)
      /\ filters.filesize_range.some
            => /\ r.filesize.some
               /\ BigGe(r.filesize.v, bounds(filters.filesize_range.v)[1])
               /\ BigLess(r.filesize.v, bounds(filters.filesize_range.v)[2])
      /\ (filters.has_faces.some /\ filters.has_faces.v) => faces_subquery(fs, r)
      /\ Truthy(filters.people) => people_subquery(fs, r, filters.people.v)
      /\ Truthy(filters.tags) => tags_subquery(pt, r, filters.tags.v)
      /\ (Truthy(text_query) /\ Len(Tokens(text_query.v)) > 0)
            => \/ ILikeContains(r.path, Tokens(text_query.v)[1])
               \/ tag_exists(pt, r, Tokens(text_query.v)) }

(***************************************************************************)
(* app/repositories/query_builder.py                                        *)
(***************************************************************************)
\* build_filters: the rows selected by sel.where(and_(*where)). The filters
\* arrive as the dict of model_dump(by_alias=True): the same keys, the date
\* filter as {"from": ..., "to": ...} or None.
build_filters(ph, fs, pt, filters, q) ==
  LET d == IF filters.date.some THEN filters.date.v ELSE [from |-> None, to |-> None]
  IN { r \in ph :
      /\ Truthy(d.from) => TsGeText(r.shot_ts, DayStartLiteral(d.from.v))
      /\ Truthy(d.to) => TsLeText(r.shot_ts, DayEndLiteral(d.to.v))
      /\ Truthy(filters.camera_make) => In(r.camera_make, filters.camera_make.v)
      /\ Truthy(filters.extension) => In(r.ext, filters.extension.v)
      /\ Truthy(filters.orientation) => In(r.orientation, filters.orientation.v)
      /\ filters.filesize_range.some
            => /\ r.filesize.some
               /\ BigGe(r.filesize.v, bounds(filters.filesize_range.v)[1])
               /\ BigLess(r.filesize.v, bounds(filters.filesize_range.v)[2])
      /\ (filters.has_faces.some /\ filters.has_faces.v)
            => \E f \in fs : f.photo_id = r.photo_id
      /\ Truthy(filters.people)
            => \E f \in fs : f.photo_id = r.photo_id /\ In(f.person_id, filters.people.v)
      /\ Truthy(filters.tags)
            => \E t \in pt : /\ t.photo_id = r.photo_id
                             /\ \E i \in 1..Len(filters.tags.v) : filters.tags.v[i] = t.tag
      /\ (Truthy(q) /\ Len(Tokens(q.v)) > 0)
            => \/ ILikeContains(r.path, Tokens(q.v)[1])
               \/ \E t \in pt : /\ t.photo_id = r.photo_id
                                /\ \E i \in 1..Len(Tokens(q.v)) : ILikeContains(t.tag, Tokens(q.v)[i]) }

(***************************************************************************)
(* app/repositories/photos_repo.py: sorting, pagination, hydration          *)
(***************************************************************************)
\* ORDER BY shot_ts ASC, photo_id ASC: a before b. NULL sorts first.
KeyLess(a, b) ==
  IF IsNull(a.shot_ts) \/ IsNull(b.shot_ts)
  THEN IF IsNull(a.shot_ts) /\ IsNull(b.shot_ts)
       THEN StrLess(a.photo_id, b.photo_id)
       ELSE IsNull(a.shot_ts)
  ELSE \/ InstantLess(Instant(a.shot_ts), Instant(b.shot_ts))
       \/ Instant(a.shot_ts) = Instant(b.shot_ts) /\ StrLess(a.photo_id, b.photo_id)

\* a comes before b under ORDER BY shot_ts <dir>, photo_id <dir>
Before(a, b, dir) == IF dir = "asc" THEN KeyLess(a, b) ELSE KeyLess(b, a)

\* The rows in the order the database returns them under ORDER BY.
RECURSIVE order_by(_, _)
order_by(rows, dir) ==
  IF rows = {} THEN <<>>
  ELSE LET first == CHOOSE r \in rows : \A o \in rows \ {r} : Before(r, o, dir)
       IN <<first>> \o order_by(rows \ {first}, dir)

\* query.limit(n)
Take(seq, n) == SubSeq(seq, 1, IF n < Len(seq) THEN n ELSE Len(seq))

\* PhotosRepository._apply_sorting: the direction of the ORDER BY it adds.
_apply_sorting(sort) ==
  IF sort.by = "shot_ts"
  THEN IF sort.dir = "desc" THEN "desc" ELSE "asc"
  ELSE IF sort.by = "relevance" THEN "desc"
  ELSE "desc"

\* page.limit or 50
EffectiveLimit(page) == IF page.limit.some /\ page.limit.v # 0 THEN page.limit.v ELSE 50

\* The continuation clause of _apply_pagination for a decoded cursor.
CursorClause(r, dir, last_ts, last_pid) ==
  IF dir = "desc"
  THEN \/ TsLt(r.shot_ts, last_ts)
       \/ TsEq(r.shot_ts, last_ts) /\ StrLess(r.photo_id, last_pid)
  ELSE \/ TsGt(r.shot_ts, last_ts)
       \/ TsEq(r.shot_ts, last_ts) /\ StrLess(last_pid, r.photo_id)

\* The query after the continuation clause of the decoded cursor c and the
\* limit, or the exception decode_cursor raised.
AfterCursor(rows, c, dir, limit) ==
  IF ~c.ok THEN [ok |-> FALSE, error |-> c.error, rows |-> {}, limit |-> 0, decodes |-> 1]
  ELSE [ok |-> TRUE, error |-> "",
        rows |-> {r \in rows : CursorClause(r, dir, c.ts, c.pid)},
        limit |-> limit, decodes |-> 1]

\* _apply_pagination with the fault of testing the cursor with "is not None"
\* instead of its truth value: an empty string is then decoded.
_apply_pagination_is_not_none(rows, page, sort) ==
  IF page.cursor.some
  THEN AfterCursor(rows, decode_cursor(page.cursor.v), sort.dir, EffectiveLimit(page))
  ELSE [ok |-> TRUE, error |-> "", rows |-> rows, limit |-> EffectiveLimit(page), decodes |-> 0]

\* PhotosRepository._apply_pagination: the rows left by the continuation
\* clause and the limit, or the exception decode_cursor raised.
_apply_pagination(rows, page, sort) ==
  IF Truthy(page.cursor)
  THEN AfterCursor(rows, decode_cursor(page.cursor.v), sort.dir, EffectiveLimit(page))
  ELSE [ok |-> TRUE, error |-> "", rows |-> rows, limit |-> EffectiveLimit(page), decodes |-> 0]

\* A set of strings as the list the database returns (in text order).
RECURSIVE SortedStrings(_)
SortedStrings(ss) ==
  IF ss = {} THEN <<>>
  ELSE LET m == CHOOSE x \in ss : \A y \in ss \ {x} : StrLess(x, y)
       IN <<m>> \o SortedStrings(ss \ {m})

\* The face rows of a photo in face_id order.
RECURSIVE FaceRows(_)
FaceRows(fs) ==
  IF fs = {} THEN <<>>
  ELSE LET m == CHOOSE x \in fs : \A y \in fs \ {x} : x.face_id < y.face_id
       IN <<m>> \o FaceRows(fs \ {m})

\* if r.person_id: ppl_map[r.photo_id].append(r.person_id), over the face rows
RECURSIVE PeopleOf(_)
PeopleOf(frows) ==
  IF Len(frows) = 0 THEN <<>>
  ELSE IF Truthy(frows[1].person_id) THEN <<frows[1].person_id.v>> \o PeopleOf(Tail(frows))
  ELSE PeopleOf(Tail(frows))

\* faces_map[r.photo_id].append({"person_id": r.person_id}), over the face rows
RECURSIVE FacesOf(_)
FacesOf(frows) ==
  IF Len(frows) = 0 THEN <<>>
  ELSE <<[person_id |-> frows[1].person_id]>> \o FacesOf(Tail(frows))

\* One hydrated item of _hydrate_items.
HydrateRow(r, fs, pt) ==
  LET frows == FaceRows({f \in fs : f.photo_id = r.photo_id})
  IN [photo_id    |-> r.photo_id,
      path        |-> r.path,
      ext         |-> Lower(IF r.ext.some THEN r.ext.v ELSE <<>>),
      camera_make |-> r.camera_make,
      orientation |-> r.orientation,
      shot_ts     |-> iso_utc(r.shot_ts),
      filesize    |-> IF r.filesize.some THEN r.filesize.v ELSE Big(0, 0),
      tags        |-> SortedStrings({t.tag : t \in {x \in pt : x.photo_id = r.photo_id}}),
      people      |-> PeopleOf(frows),
      faces       |-> FacesOf(frows)]

\* The list comprehension that builds the items.
RECURSIVE HydrateRows(_, _, _)
HydrateRows(rows, fs, pt) ==
  IF Len(rows) = 0 THEN <<>>
  ELSE <<HydrateRow(rows[1], fs, pt)>> \o HydrateRows(Tail(rows), fs, pt)

\* PhotosRepository._hydrate_items: the items of the rows, or AttributeError
\* when iso_utc is handed the None of a NULL shot_ts.
_hydrate_items(rows, fs, pt) ==
  IF \E i \in 1..Len(rows) : IsNull(rows[i].shot_ts)
  THEN [ok |-> FALSE, error |-> "AttributeError", items |-> <<>>]
  ELSE [ok |-> TRUE, error |-> "", items |-> HydrateRows(rows, fs, pt)]

\* The queries _hydrate_items sends: none for an empty page.
HydrateQueries(rows) == IF Len(rows) = 0 THEN <<>> ELSE <<"tags", "faces">>

\* datetime.fromisoformat(shot_ts_str.replace("Z", "+00:00")) of an item.
ShotTsOf(item) ==
  FromIsoformat(Replace(item.shot_ts, Str(<<"Z">>), Str(<<"+", "0", "0", ":", "0", "0">>)))

\* _generate_cursor with the fault of reading items[0] instead of items[-1].
_generate_cursor_of_first(items) ==
  IF Len(items) = 0 THEN None
  ELSE Some(encode_cursor(ShotTsOf(items[1]).dt, items[1].photo_id))

\* PhotosRepository._generate_cursor: the cursor of the last item.
_generate_cursor(items) ==
  IF Len(items) = 0 THEN None
  ELSE Some(encode_cursor(ShotTsOf(items[Len(items)]).dt, items[Len(items)].photo_id))

Raised(error, queries, decodes) ==
  [ok |-> FALSE, error |-> error, items |-> <<>>, total |-> 0, next_cursor |-> None,
   queries |-> queries, decodes |-> decodes]

Returned(items, total, next_cursor, queries, decodes) ==
  [ok |-> TRUE, error |-> "", items |-> items, total |-> total, next_cursor |-> next_cursor,
   queries |-> queries, decodes |-> decodes]

\* search_photos from the hydrated items on: next_cursor and the return.
ReturnPage(hydrated, total_count, queries, decodes) ==
  IF ~hydrated.ok THEN Raised(hydrated.error, queries, decodes)
  ELSE Returned(hydrated.items, total_count,
                (IF Len(hydrated.items) > 0 THEN _generate_cursor(hydrated.items) ELSE None),
                queries, decodes)

\* search_photos from the executed page query on: hydration of its rows.
HydratePage(rows, fs, pt, total_count, decodes) ==
  ReturnPage(_hydrate_items(rows, fs, pt), total_count,
             <<"count", "page">> \o HydrateQueries(rows), decodes)

\* search_photos from _apply_pagination on: the exception of a cursor that
\* does not decode (the count query has run), or the execution of the page query.
ExecutePage(paged, direction, fs, pt, total_count) ==
  IF ~paged.ok THEN Raised(paged.error, <<"count">>, paged.decodes)
  ELSE HydratePage(Take(order_by(paged.rows, direction), paged.limit), fs, pt,
                   total_count, paged.decodes)

\* search_photos with the fault of filtering tags by a JOIN with photo_tags
\* instead of EXISTS: the count has one row per matching tag of a record.
search_photos_joining_tags(ph, fs, pt, filters, sort, page, text_query) ==
  LET query == _apply_filters(ph, fs, pt, filters, text_query)
  IN ExecutePage(_apply_pagination(query, page, sort), _apply_sorting(sort), fs, pt,
                 IF Truthy(filters.tags)
                 THEN Cardinality({t \in pt : /\ \E r \in query : r.photo_id = t.photo_id
                                              /\ \E i \in 1..Len(filters.tags.v) : filters.tags.v[i] = t.tag})
                 ELSE Cardinality(query))

\* PhotosRepository.search_photos: (items, total_count, next_cursor), or the
\* exception raised, with the queries executed up to that point.
search_photos(ph, fs, pt, filters, sort, page, text_query) ==
  LET query == _apply_filters(ph, fs, pt, filters, text_query)
  IN ExecutePage(_apply_pagination(query, page, sort), _apply_sorting(sort), fs, pt,
                 Cardinality(query))

\* PhotosRepository.get_filtered_photo_ids
get_filtered_photo_ids(ph, fs, pt, filters, text_query) ==
  {r.photo_id : r \in _apply_filters(ph, fs, pt, filters, text_query)}

\* select_hits after decode_cursor: the descending continuation clause,
\* whatever the request's direction, ORDER BY ... DESC and the limit.
HitsAfter(rows, c, limit) ==
  IF ~c.ok THEN [ok |-> FALSE, error |-> c.error, rows |-> <<>>, decodes |-> 1]
  ELSE [ok |-> TRUE, error |-> "",
        rows |-> Take(order_by({r \in rows :
                                  \/ TsLt(r.shot_ts, c.ts)
                                  \/ TsEq(r.shot_ts, c.ts) /\ StrLess(r.photo_id, c.pid)},
                               "desc"), limit),
        decodes |-> 1]

\* PhotosRepository.select_hits (legacy): always ORDER BY ... DESC and the
\* descending continuation clause.
select_hits(rows, limit, cursor) ==
  IF Truthy(cursor)
  THEN HitsAfter(rows, decode_cursor(cursor.v), limit)
  ELSE [ok |-> TRUE, error |-> "", rows |-> Take(order_by(rows, "desc"), limit), decodes |-> 0]

(***************************************************************************)
(* app/services/search_service.py                                           *)
(***************************************************************************)
\* execute from select_hits on: hydration, next_cursor and the response.
ExecuteHits(hits, fs, pt, total) ==
  IF ~hits.ok THEN Raised(hits.error, <<"count">>, hits.decodes)
  ELSE HydratePage(hits.rows, fs, pt, total, hits.decodes)

\* SearchService.execute: the hits of the response, or the exception raised.
execute(ph, fs, pt, r) ==
  LET sel == build_filters(ph, fs, pt, r.filters, r.q)
  IN ExecuteHits(select_hits(sel, EffectiveLimit(r.page), r.page.cursor), fs, pt, Cardinality(sel))

(***************************************************************************)
(* app/services/facets.py and app/domain/facets.py                          *)
(***************************************************************************)
\* sorted(keys): a set of integers in ascending order.
SortedInts(S) ==
  [i \in 1..Cardinality(S) |-> CHOOSE x \in S : Cardinality({y \in S : y < x}) = i - 1]

\* The by_year tree of date_facet over the rows that hold a datetime: one
\* node per year, month and day in ascending order, each counting its rows.
DateTree(rows) ==
  LET days(y, m) == SortedInts({r.shot_ts.d : r \in {x \in rows : x.shot_ts.y = y /\ x.shot_ts.mo = m}})
      months(y)  == SortedInts({r.shot_ts.mo : r \in {x \in rows : x.shot_ts.y = y}})
      years      == SortedInts({r.shot_ts.y : r \in rows})
      day(y, m, d) ==
        [value |-> d,
         count |-> Cardinality({x \in rows : x.shot_ts.y = y /\ x.shot_ts.mo = m /\ x.shot_ts.d = d})]
      month(y, m) ==
        [value |-> m,
         count |-> Cardinality({x \in rows : x.shot_ts.y = y /\ x.shot_ts.mo = m}),
         days  |-> [k \in 1..Len(days(y, m)) |-> day(y, m, days(y, m)[k])]]
      year(y) ==
        [value  |-> y,
         count  |-> Cardinality({x \in rows : x.shot_ts.y = y}),
         months |-> [j \in 1..Len(months(y)) |-> month(y, months(y)[j])]]
  IN [years |-> [i \in 1..Len(years) |-> year(years[i])]]

\* date_facet with the fault of counting a record without timestamp under
\* the first year.
date_facet_counts_missing(ph, filt_ids) ==
  LET tree == DateTree({r \in ph : r.photo_id \in filt_ids /\ ~IsNull(r.shot_ts)})
      lost == Cardinality({r \in ph : r.photo_id \in filt_ids /\ IsNull(r.shot_ts)})
  IN IF Len(tree.years) = 0 THEN tree
     ELSE [years |-> [tree.years EXCEPT ![1].count = @ + lost]]

\* date_facet: the tree over the filtered rows, a value that is not a
\* datetime (NULL) being skipped.
date_facet(ph, filt_ids) ==
  DateTree({r \in ph : r.photo_id \in filt_ids /\ ~IsNull(r.shot_ts)})

\* people_facet with the fault of counting face rows instead of distinct photos.
people_facet_counts_faces(fs, filt_ids) ==
  LET rows == {f \in fs : f.photo_id \in filt_ids /\ Truthy(f.person_id)}
      pids == SortedStrings({f.person_id.v : f \in rows})
  IN [i \in 1..Len(pids) |->
        [value |-> pids[i], count |-> Cardinality({f \in rows : f.person_id.v = pids[i]})]]

\* people_facet: GROUP BY person_id with COUNT(DISTINCT photo_id) over the
\* faces of the filtered photos, in the order of the group key; "if pid"
\* drops the groups of NULL and of the empty string.
people_facet(fs, filt_ids) ==
  LET rows == {f \in fs : f.photo_id \in filt_ids /\ Truthy(f.person_id)}
      pids == SortedStrings({f.person_id.v : f \in rows})
  IN [i \in 1..Len(pids) |->
        [value |-> pids[i],
         count |-> Cardinality({f.photo_id : f \in {x \in rows : x.person_id.v = pids[i]}})]]

\* tags_facet with the fault of leaving out WHERE photo_id IN filt_ids.
tags_facet_of_all_photos(pt, filt_ids) ==
  LET tags == SortedStrings({t.tag : t \in pt})
  IN [i \in 1..Len(tags) |->
        [value |-> tags[i], count |-> Cardinality({t.photo_id : t \in {x \in pt : x.tag = tags[i]}})]]

\* tags_facet: GROUP BY tag with COUNT(DISTINCT photo_id) over the tags of
\* the filtered photos, in the order of the group key.
tags_facet(pt, filt_ids) ==
  LET rows == {t \in pt : t.photo_id \in filt_ids}
      tags == SortedStrings({t.tag : t \in rows})
  IN [i \in 1..Len(tags) |->
        [value |-> tags[i],
         count |-> Cardinality({t.photo_id : t \in {x \in rows : x.tag = tags[i]}})]]

\* values.sort(key=lambda v: v.count, reverse=True): a stable sort, entries
\* of equal count keep their order.
SortByCountDesc(values) ==
  LET pos(i) == Cardinality({j \in 1..Len(values) :
                               \/ values[j].count > values[i].count
                               \/ values[j].count = values[i].count /\ j < i}) + 1
  IN [k \in 1..Len(values) |-> values[CHOOSE i \in 1..Len(values) : pos(i) = k]]

\* sum(v.count for v in values)
RECURSIVE SumCounts(_)
SumCounts(values) ==
  IF Len(values) = 0 THEN 0 ELSE values[1].count + SumCounts(Tail(values))

\* SimpleCountFacet.compute for TagsFacet: the rows of the same query, those
\* with a None value dropped (tag is never NULL), sorted by count descending.
TagsFacet_compute(pt, filtered_photo_ids) ==
  [values      |-> SortByCountDesc(tags_facet(pt, filtered_photo_ids)),
   total_count |-> SumCounts(tags_facet(pt, filtered_photo_ids))]

\* The number of groups of GROUP BY column HAVING COUNT(*) > 1; the rows
\* whose column is NULL form one group.
DuplicateGroups(rows, column) ==
  Cardinality({v \in {r[column] : r \in rows} :
                 Cardinality({r \in rows : r[column] = v}) > 1})

\* duplicates_facet
duplicates_facet(ph, filt_ids) ==
  [exact |-> DuplicateGroups({r \in ph : r.photo_id \in filt_ids}, "sha256"),
   near  |-> DuplicateGroups({r \in ph : r.photo_id \in filt_ids}, "phash")]

\* PhotosRepository.compute_facets
compute_facets(ph, fs, pt, filtered_photo_ids) ==
  [date       |-> date_facet(ph, filtered_photo_ids),
   people     |-> people_facet(fs, filtered_photo_ids),
   tags       |-> TagsFacet_compute(pt, filtered_photo_ids).values,
   duplicates |-> duplicates_facet(ph, filtered_photo_ids)]

\* SearchService.execute, the facets of the response: computed over the ids
\* of the rows the where clause selects, whatever the page.
execute_facets(ph, fs, pt, r, hits) ==
  LET filt_ids == {x.photo_id : x \in build_filters(ph, fs, pt, r.filters, r.q)}
  IN [date       |-> date_facet(ph, filt_ids),
      people     |-> people_facet(fs, filt_ids),
      tags       |-> tags_facet(pt, filt_ids),
      duplicates |-> duplicates_facet(ph, filt_ids)]

(***************************************************************************)
(* Requests                                                                 *)
(***************************************************************************)
\* SearchFilters(): every dimension absent.
NoFilters ==
  [date |-> None, camera_make |-> None, extension |-> None, orientation |-> None,
   filesize_range |-> None, has_faces |-> None, tags |-> None, people |-> None]

\* The call a request makes: the repository's search_photos, or the service's
\* execute with its inline query construction.
Call(ph, fs, pt, r) ==
  IF r.impl = "repo"
  THEN search_photos(ph, fs, pt, r.filters, r.sort, r.page, r.q)
  ELSE execute(ph, fs, pt, r)

Request(kind, impl, filters, sort, limit, cursor, q) ==
  [kind |-> kind, impl |-> impl, filters |-> filters, sort |-> sort,
   page |-> [limit |-> limit, cursor |-> cursor], q |-> q]

\* Before any request.
NoRequest == Request("idle", "repo", NoFilters, [by |-> "shot_ts", dir |-> "desc"], None, None, None)
NoResponse == Raised("", <<>>, 0)

(***************************************************************************)
(* The collection and the requests of the pagination specification          *)
(***************************************************************************)
MaxLimit == 2

beach == Str(<<"b", "e", "a", "c", "h">>)
sunset == Str(<<"s", "u", "n", "s", "e", "t">>)
jpg == Str(<<"j", "p", "g">>)

\* Photo ids; one contains the cursor's separator.
PhotoIds == <<Str(<<"a">>), Str(<<"b">>), Str(<<"c", "|", "1">>)>>

\* Capture timestamps as the driver returns them (naive, UTC wall clock):
\* 2020-06-01, 2020-06-02 and 2020-07-01, one with microseconds.
TsPool ==
  << DateTime(2020, 6, 1, 12, 0, 0, 0, FALSE, 0),
     DateTime(2020, 6, 2, 12, 0, 0, 0, FALSE, 0),
     DateTime(2020, 7, 1, 23, 59, 59, 250, FALSE, 0) >>

\* Row k of photos with the chosen shot_ts (index 4: NULL).
PhotoRow(k, t) ==
  [photo_id    |-> PhotoIds[k],
   path        |-> Str(<<"/", "l", "i", "b", "/">>) \o PhotoIds[k],
   ext         |-> Some(jpg),
   camera_make |-> Some(Str(<<"A", "p", "p", "l", "e">>)),
   orientation |-> Some(Str(<<"l", "a", "n", "d", "s", "c", "a", "p", "e">>)),
   shot_ts     |-> IF t = 4 THEN NullTs ELSE TsPool[t],
   filesize    |-> Some(Big(0, 1000 + k)),
   sha256      |-> Some(Str(<<"s">>) \o PhotoIds[k]),
   phash       |-> Some(Str(<<"p", "h">>))]

\* Tags and faces of the photos: a and c|1 carry beach, a has two faces of the
\* same person, b an unidentified one.
WalkTags ==
  { [photo_id |-> PhotoIds[1], tag |-> beach],
    [photo_id |-> PhotoIds[3], tag |-> beach],
    [photo_id |-> PhotoIds[3], tag |-> sunset] }

WalkFaces ==
  { [face_id |-> 1, photo_id |-> PhotoIds[1], person_id |-> Some(Str(<<"i", "n", "e", "s">>))],
    [face_id |-> 2, photo_id |-> PhotoIds[1], person_id |-> Some(Str(<<"i", "n", "e", "s">>))],
    [face_id |-> 3, photo_id |-> PhotoIds[2], person_id |-> None] }

WalkFilters == {NoFilters, [NoFilters EXCEPT !.tags = Some(<<beach>>)]}
Sorts == [by : {"shot_ts", "relevance"}, dir : {"asc", "desc"}]
Limits == {None} \cup {Some(n) : n \in 1..MaxLimit}
Impls == {"repo", "service"}

\* Tokens that are not cursors: the test suite's "invalid_base64!", the
\* encoding of a payload without separator, characters outside the alphabet
\* only, the encoding of the byte FF, and a cursor with a stray character in
\* front of it.
BadTokens ==
  { Str(<<"i", "n", "v", "a", "l", "i", "d", "_", "b", "a", "s", "e", "6", "4", "!">>),
    UrlsafeB64Encode(Str(<<"n", "o", "_", "p", "i", "p", "e">>)),
    Str(<<"!", "!", "!", "!">>),
    UrlsafeB64Encode(<<255>>),
    Str(<<"!">>) \o encode_cursor(TsPool[2], PhotoIds[2]) }

\* Cursors of positions of the collection, whatever request produced them.
SeekCursors == {encode_cursor(TsPool[t], PhotoIds[k]) : t \in 1..3, k \in 1..3}

\* No codec call and no HTTP request in progress.
CodecIdle ==
  /\ requests = <<>>
  /\ sessions = <<>> /\ written = {}
  /\ cin = [ts |-> TsPool[1], pid |-> <<>>]
  /\ ctoken = [some |-> FALSE, v |-> <<>>, encoded |-> FALSE]
  /\ cout = [called |-> FALSE, res |-> [ok |-> FALSE, error |-> ""]]

Init ==
  /\ \E m \in [1..3 -> 0..4] :
        /\ photos = {PhotoRow(k, m[k]) : k \in {j \in 1..3 : m[j] # 0}}
        /\ faces = {f \in WalkFaces : \E k \in 1..3 : m[k] # 0 /\ f.photo_id = PhotoIds[k]}
        /\ photo_tags = {t \in WalkTags : \E k \in 1..3 : m[k] # 0 /\ t.photo_id = PhotoIds[k]}
  /\ req = NoRequest
  /\ resp = NoResponse
  /\ walk = <<>>
  /\ CodecIdle

\* The response out to request r is recorded, and its page appended to the walk.
Respond(r, out) ==
  /\ req' = r
  /\ resp' = out
  /\ walk' = IF ~out.ok THEN walk
             ELSE IF r.kind = "next" THEN Append(walk, out.items)
             ELSE <<out.items>>
  /\ UNCHANGED <<photos, faces, photo_tags, cin, ctoken, cout, requests, sessions, written>>

\* Serve request r.
Serve(r) == Respond(r, Call(photos, faces, photo_tags, r))

\* The first request of a walk: no cursor.
FirstPage ==
  /\ req.kind = "idle"
  /\ \E impl \in Impls, f \in WalkFilters, sort \in Sorts, limit \in Limits :
        Serve(Request("first", impl, f, sort, limit, None, None))

\* The next request of the walk: the same request with the cursor just returned.
NextPage ==
  /\ req.kind \in {"first", "next"}
  /\ resp.ok /\ resp.next_cursor.some
  /\ Serve([req EXCEPT !.kind = "next", !.page.cursor = resp.next_cursor])

\* A request whose page.cursor is the empty string.
EmptyCursorRequest ==
  /\ req.kind = "idle"
  /\ \E impl \in Impls, f \in WalkFilters, sort \in Sorts, limit \in Limits :
        Serve(Request("empty", impl, f, sort, limit, Some(<<>>), None))

\* A request whose page.cursor does not decode.
BadCursorRequest ==
  /\ req.kind = "idle"
  /\ \E impl \in Impls, tok \in BadTokens, dir \in {"asc", "desc"} :
        Serve(Request("bad", impl, NoFilters, [by |-> "shot_ts", dir |-> dir], None, Some(tok), None))

\* A request with the cursor of some position of the collection.
SeekRequest ==
  /\ req.kind = "idle"
  /\ \E f \in WalkFilters, sort \in Sorts, c \in SeekCursors :
        Serve(Request("seek", "repo", f, sort, Some(MaxLimit), Some(c), None))

Next == FirstPage \/ NextPage \/ EmptyCursorRequest \/ BadCursorRequest \/ SeekRequest

Spec == Init /\ [][Next]_vars

(***************************************************************************)
(* Properties of the pagination specification                               *)
(***************************************************************************)
\* The request is a step of a cursor walk: a first page or a continuation.
InWalk == req.kind \in {"first", "next"}

\* The items of all pages of the walk, in the order they were returned.
RECURSIVE Concat(_)
Concat(pages) == IF Len(pages) = 0 THEN <<>> ELSE pages[1] \o Concat(Tail(pages))

WalkItems == Concat(walk)
WalkIds == {WalkItems[i].photo_id : i \in 1..Len(WalkItems)}

\* The records that match the filters of a walk, stated on the tables: every
\* record, or the records carrying one of the filter's tags.
MatchingIds(f) ==
  { r.photo_id : r \in { x \in photos :
      f.tags.some => \E t \in photo_tags :
                        t.photo_id = x.photo_id /\ \E i \in 1..Len(f.tags.v) : f.tags.v[i] = t.tag } }

RowOf(pid) == CHOOSE r \in photos : r.photo_id = pid

\* Item a precedes item b in ascending (shot_ts, photo_id) order.
ItemKeyLess(a, b) ==
  \/ InstantLess(Instant(ShotTsOf(a).dt), Instant(ShotTsOf(b).dt))
  \/ /\ Instant(ShotTsOf(a).dt) = Instant(ShotTsOf(b).dt)
     /\ StrLess(a.photo_id, b.photo_id)

\* C1: a cursor walk of search_photos (sort by shot_ts, either direction, any
\* limit >= 1) that has reached its empty page has returned every record that
\* matches the filters, and none of them twice.
C1_WalkVisitsEveryMatchOnce ==
  (InWalk /\ req.impl = "repo" /\ req.sort.by = "shot_ts" /\ resp.ok /\ Len(resp.items) = 0)
    => /\ WalkIds = MatchingIds(req.filters)
       /\ \A i, j \in 1..Len(WalkItems) : i # j => WalkItems[i].photo_id # WalkItems[j].photo_id

\* C2: the items returned along a walk, within each page and from one page to
\* the next, are strictly decreasing in (shot_ts, photo_id) when the request
\* asks for desc and strictly increasing when it asks for asc.
C2_ItemsMonotonicInRequestedDirection ==
  (InWalk /\ req.sort.by = "shot_ts" /\ resp.ok)
    => \A i \in 1..(Len(WalkItems) - 1) :
         IF req.sort.dir = "asc"
         THEN ItemKeyLess(WalkItems[i], WalkItems[i + 1])
         ELSE ItemKeyLess(WalkItems[i + 1], WalkItems[i])

\* C3: under sort.by = relevance, with either sort.dir, search_photos answers
\* every request (first page, continuation, any cursor) exactly as it answers
\* the same request with sort.by = shot_ts and sort.dir = desc: same outcome,
\* same items in the same order, same next cursor.
C3_RelevanceIsShotTsDesc ==
  (req.kind \in {"first", "next", "seek"} /\ req.impl = "repo" /\ req.sort.by = "relevance")
    => LET ref == search_photos(photos, faces, photo_tags, req.filters,
                                [by |-> "shot_ts", dir |-> "desc"], req.page, req.q)
       IN /\ resp.ok = ref.ok
          /\ resp.items = ref.items
          /\ resp.next_cursor = ref.next_cursor

\* C4: search_photos returns no next cursor exactly when the page is empty,
\* and the next cursor of a non-empty page decodes to the shot_ts of the last
\* item's record, as a UTC datetime, and the last item's photo id.
C4_NextCursorIsLastItem ==
  (req.kind # "idle" /\ req.impl = "repo" /\ resp.ok)
    => /\ resp.next_cursor.some <=> Len(resp.items) > 0
       /\ Len(resp.items) > 0 =>
            LET last == resp.items[Len(resp.items)]
                c    == decode_cursor(resp.next_cursor.v)
            IN /\ c.ok
               /\ c.pid = last.photo_id
               /\ c.ts.aware /\ c.ts.off = 0
               /\ Instant(c.ts) = Instant(RowOf(last.photo_id).shot_ts)

\* A continuation page of search_photos whose last item is the record with a
\* '|' in its id and microseconds in its timestamp.
C4_Witness ==
  /\ req.kind = "next" /\ req.impl = "repo" /\ resp.ok
  /\ Len(resp.items) > 0 /\ resp.next_cursor.some
  /\ resp.items[Len(resp.items)].photo_id = PhotoIds[3]
  /\ RowOf(PhotoIds[3]).shot_ts = TsPool[3]

\* C5: a page of a walk that returns the last of the matching records (every
\* matching record has then been returned) carries no next cursor; with the
\* records of 2020-06-01, 2020-06-02 and 2020-07-01, limit 2 and desc, that is
\* page 2, [06-01].
C5_FinalPageHasNoCursor ==
  (InWalk /\ req.impl = "repo" /\ req.sort.by = "shot_ts" /\ resp.ok
     /\ Len(resp.items) > 0 /\ WalkIds = MatchingIds(req.filters))
    => ~resp.next_cursor.some

\* C8: when search_photos is handed a cursor that does not decode, no query
\* has been executed when the exception is raised.
C8_NoQueryBeforeCursorIsValidated ==
  (req.kind # "idle" /\ req.impl = "repo" /\ Truthy(req.page.cursor)
     /\ ~decode_cursor(req.page.cursor.v).ok)
    => ~resp.ok /\ resp.queries = <<>>

\* C9: a request whose page.cursor is the empty string is answered as the same
\* request without a cursor (same outcome, items, total and next cursor), and
\* decode_cursor is not called.
C9_EmptyCursorIsNoCursor ==
  req.kind = "empty"
    => LET ref == Call(photos, faces, photo_tags, [req EXCEPT !.page.cursor = None])
       IN /\ resp.decodes = 0
          /\ resp.ok = ref.ok
          /\ resp.items = ref.items
          /\ resp.total = ref.total
          /\ resp.next_cursor = ref.next_cursor

\* An empty-cursor request to search_photos that returned a full page of a
\* larger collection.
C9_Witness ==
  /\ req.kind = "empty" /\ req.impl = "repo" /\ resp.ok
  /\ Len(resp.items) = MaxLimit /\ resp.total > MaxLimit /\ resp.next_cursor.some

(***************************************************************************)
(* The codec specification: encode_cursor and decode_cursor on their own    *)
(***************************************************************************)
\* Calendar days (a leap day, a year's last and first day, a summer day),
\* times of day, microseconds and time zones (naive, UTC, and offsets of
\* +05:00, -08:00 and +05:30) of the timestamps handed to encode_cursor.
CodecDays == {<<2020, 2, 29>>, <<2023, 12, 31>>, <<2024, 1, 1>>, <<2020, 6, 1>>}
CodecTimes == {<<0, 0, 0>>, <<12, 30, 45>>, <<23, 59, 59>>}
CodecMicros == {0, 5, 123456, 999999}
CodecZones == {<<FALSE, 0>>, <<TRUE, 0>>, <<TRUE, 300>>, <<TRUE, -480>>, <<TRUE, 330>>}

\* Photo ids, with and without the separator.
CodecIds == {Str(<<"a">>), Str(<<"c", "|", "1">>), Str(<<"|", "x", "|", "|">>)}

CodecInit ==
  /\ photos = {} /\ faces = {} /\ photo_tags = {}
  /\ req = NoRequest /\ resp = NoResponse /\ walk = <<>>
  /\ requests = <<>> /\ sessions = <<>> /\ written = {}
  /\ \E d \in CodecDays, t \in CodecTimes, us \in CodecMicros, z \in CodecZones, id \in CodecIds :
        cin = [ts |-> DateTime(d[1], d[2], d[3], t[1], t[2], t[3], us, z[1], z[2]), pid |-> id]
  /\ ctoken = [some |-> FALSE, v |-> <<>>, encoded |-> FALSE]
  /\ cout = [called |-> FALSE, res |-> [ok |-> FALSE, error |-> ""]]

\* encode_cursor(ts, photo_id) of the pair at hand.
Encode ==
  /\ ~ctoken.some
  /\ ctoken' = [some |-> TRUE, v |-> encode_cursor(cin.ts, cin.pid), encoded |-> TRUE]
  /\ UNCHANGED <<photos, faces, photo_tags, req, resp, walk, cin, cout, requests, sessions, written>>

\* A token that encode_cursor did not produce arrives instead.
ForeignToken ==
  /\ ~ctoken.some
  /\ \E tok \in BadTokens : ctoken' = [some |-> TRUE, v |-> tok, encoded |-> FALSE]
  /\ UNCHANGED <<photos, faces, photo_tags, req, resp, walk, cin, cout, requests, sessions, written>>

\* decode_cursor(token)
Decode ==
  /\ ctoken.some /\ ~cout.called
  /\ cout' = [called |-> TRUE, res |-> decode_cursor(ctoken.v)]
  /\ UNCHANGED <<photos, faces, photo_tags, req, resp, walk, cin, ctoken, requests, sessions, written>>

CodecNext == Encode \/ ForeignToken \/ Decode

SpecCodec == CodecInit /\ [][CodecNext]_vars

\* C6: decode_cursor(encode_cursor(t, id)) is (t as a UTC datetime, id) for
\* naive and aware t, with and without microseconds, and for ids that
\* contain the separator; a naive t is read as UTC.
C6_CursorRoundTrip ==
  (cout.called /\ ctoken.encoded)
    => /\ cout.res.ok
       /\ cout.res.pid = cin.pid
       /\ cout.res.ts.aware /\ cout.res.ts.off = 0
       /\ cout.res.ts.h <= 23 /\ cout.res.ts.mi <= 59 /\ cout.res.ts.s <= 59
       /\ Instant(cout.res.ts) = Instant(cin.ts)

\* A round trip of a timestamp with a negative offset that crosses into the
\* next year in UTC, with microseconds, and an id full of separators.
C6_Witness ==
  /\ cout.called /\ ctoken.encoded /\ cout.res.ok
  /\ cin.ts.aware /\ cin.ts.off = -480 /\ cin.ts.us = 999999
  /\ cin.ts.y = 2023 /\ cin.ts.h = 23
  /\ cin.pid = Str(<<"|", "x", "|", "|">>)
  /\ cout.res.ts.y = 2024

\* C7: decode_cursor fails with MalformedCursor, and returns no pair, for
\* every token that is not a valid URL-safe encoding or whose payload has no
\* '|' separator.
C7_MalformedCursorRejected ==
  (cout.called /\ ~ctoken.encoded)
    => ~cout.res.ok /\ cout.res.error = "MalformedCursor"

(***************************************************************************)
(* The filter specification: one collection, every combination of filters   *)
(***************************************************************************)
ines == Str(<<"i", "n", "e", "s">>)
omar == Str(<<"o", "m", "a", "r">>)
Apple == Str(<<"A", "p", "p", "l", "e">>)
Canon == Str(<<"C", "a", "n", "o", "n">>)
png == Str(<<"p", "n", "g">>)
landscape == Str(<<"l", "a", "n", "d", "s", "c", "a", "p", "e">>)
portrait == Str(<<"p", "o", "r", "t", "r", "a", "i", "t">>)

\* Four records: sizes on both sides of the small/medium boundary and at the
\* medium/large one, and one record with every optional column NULL.
FilterRows ==
  << [photo_id |-> Str(<<"a">>), path |-> Str(<<"/", "l", "i", "b", "/", "a">>),
      ext |-> Some(jpg), camera_make |-> Some(Apple), orientation |-> Some(landscape),
      shot_ts |-> TsPool[1], filesize |-> Some(Big(0, 999999)),
      sha256 |-> Some(Str(<<"s", "1">>)), phash |-> Some(Str(<<"p", "1">>))],
     [photo_id |-> Str(<<"b">>), path |-> Str(<<"/", "S", "u", "n", "/", "b">>),
      ext |-> Some(png), camera_make |-> Some(Canon), orientation |-> Some(portrait),
      shot_ts |-> TsPool[2], filesize |-> Some(Big(1, 0)),
      sha256 |-> Some(Str(<<"s", "2">>)), phash |-> Some(Str(<<"p", "1">>))],
     [photo_id |-> Str(<<"c", "|", "1">>), path |-> Str(<<"/", "l", "i", "b", "/", "c">>),
      ext |-> None, camera_make |-> None, orientation |-> None,
      shot_ts |-> NullTs, filesize |-> None, sha256 |-> None, phash |-> None],
     [photo_id |-> Str(<<"d">>), path |-> Str(<<"/", "l", "i", "b", "/", "d">>),
      ext |-> Some(jpg), camera_make |-> Some(Apple), orientation |-> Some(portrait),
      shot_ts |-> TsPool[3], filesize |-> Some(Big(5, 0)),
      sha256 |-> Some(Str(<<"s", "4">>)), phash |-> Some(Str(<<"p", "4">>))] >>

FilterTags ==
  { [photo_id |-> Str(<<"a">>), tag |-> beach],
    [photo_id |-> Str(<<"b">>), tag |-> beach],
    [photo_id |-> Str(<<"b">>), tag |-> sunset],
    [photo_id |-> Str(<<"d">>), tag |-> sunset] }

FilterFaces ==
  { [face_id |-> 1, photo_id |-> Str(<<"a">>), person_id |-> Some(ines)],
    [face_id |-> 2, photo_id |-> Str(<<"a">>), person_id |-> Some(ines)],
    [face_id |-> 3, photo_id |-> Str(<<"b">>), person_id |-> Some(omar)],
    [face_id |-> 4, photo_id |-> Str(<<"b">>), person_id |-> None],
    [face_id |-> 5, photo_id |-> Str(<<"c", "|", "1">>), person_id |-> Some(omar)] }

\* The values each dimension takes in a request.
FilterPool ==
  [ date           : {None, Some([from |-> Some(Str(<<"2", "0", "2", "0", "-", "0", "6", "-", "0", "2">>)),
                                  to   |-> Some(Str(<<"2", "0", "2", "0", "-", "0", "7", "-", "0", "1">>))])},
    camera_make    : {None, Some(<<Apple>>), Some(<<Apple, Canon>>)},
    extension      : {None, Some(<<jpg>>)},
    orientation    : {None, Some(<<portrait>>)},
    filesize_range : {None, Some("medium")},
    has_faces      : {None, Some(TRUE)},
    tags           : {None, Some(<<beach>>), Some(<<beach, sunset>>)},
    people         : {None, Some(<<ines>>), Some(<<ines, omar>>)} ]

QueryPool == {None, Some(Str(<<"S", "u", "n">>))}

FilterInit ==
  /\ \E ks \in SUBSET (1..Len(FilterRows)) :
        /\ photos = {FilterRows[k] : k \in ks}
        /\ faces = {f \in FilterFaces : \E k \in ks : f.photo_id = FilterRows[k].photo_id}
        /\ photo_tags = {t \in FilterTags : \E k \in ks : t.photo_id = FilterRows[k].photo_id}
  /\ req = NoRequest /\ resp = NoResponse /\ walk = <<>>
  /\ CodecIdle

\* One search with the chosen filters and text query: what search_photos
\* returns, the ids get_filtered_photo_ids returns, and the rows build_filters
\* selects.
ApplyFilters ==
  /\ req.kind = "idle"
  /\ \E f \in FilterPool, q \in QueryPool :
        /\ req' = Request("filter", "repo", f, [by |-> "shot_ts", dir |-> "desc"], None, None, q)
        /\ resp' = [search |-> search_photos(photos, faces, photo_tags, f,
                                             [by |-> "shot_ts", dir |-> "desc"],
                                             [limit |-> None, cursor |-> None], q),
                    ids    |-> get_filtered_photo_ids(photos, faces, photo_tags, f, q),
                    built  |-> {r.photo_id : r \in build_filters(photos, faces, photo_tags, f, q)}]
  /\ UNCHANGED <<photos, faces, photo_tags, walk, cin, ctoken, cout, requests, sessions, written>>

FilterNext == ApplyFilters

SpecFilter == FilterInit /\ [][FilterNext]_vars

\* A list dimension is present when it holds at least one value.
Present(dim) == dim.some /\ Len(dim.v) > 0

\* Record r has value v in a multi-value dimension, stated on the tables.
HasValue(r, dim, v) ==
  IF dim = "camera_make" THEN r.camera_make.some /\ r.camera_make.v = v
  ELSE IF dim = "extension" THEN r.ext.some /\ r.ext.v = v
  ELSE IF dim = "orientation" THEN r.orientation.some /\ r.orientation.v = v
  ELSE IF dim = "tags" THEN \E t \in photo_tags : t.photo_id = r.photo_id /\ t.tag = v
  ELSE \E f \in faces : f.photo_id = r.photo_id /\ f.person_id.some /\ f.person_id.v = v

\* The records selected by one single-value dimension taken alone.
AloneIds(f, q) == {r.photo_id : r \in _apply_filters(photos, faces, photo_tags, f, q)}

\* The records that satisfy every present dimension: at least one value of
\* each present multi-value dimension, and each single-value dimension as it
\* selects when it is the only one.
ComposedIds(f, q) ==
  { r.photo_id : r \in { x \in photos :
      /\ \A dim \in {"camera_make", "extension", "orientation", "tags", "people"} :
            Present(f[dim]) => \E i \in 1..Len(f[dim].v) : HasValue(x, dim, f[dim].v[i])
      /\ f.has_faces = Some(TRUE) => \E fc \in faces : fc.photo_id = x.photo_id
      /\ f.date.some => x.photo_id \in AloneIds([NoFilters EXCEPT !.date = f.date], None)
      /\ f.filesize_range.some
            => x.photo_id \in AloneIds([NoFilters EXCEPT !.filesize_range = f.filesize_range], None)
      /\ q.some => x.photo_id \in AloneIds(NoFilters, q) } }

\* C10: the records a filter selects are those that satisfy every present
\* dimension (AND), a multi-value dimension being satisfied by any one of its
\* values (OR), an absent dimension by every record; get_filtered_photo_ids,
\* build_filters and search_photos (its count and, when it returns, its
\* items) select exactly this set.
C10_FilterComposition ==
  req.kind = "filter"
    => /\ resp.ids = ComposedIds(req.filters, req.q)
       /\ resp.built = ComposedIds(req.filters, req.q)
       /\ resp.search.ok =>
            /\ {resp.search.items[i].photo_id : i \in 1..Len(resp.search.items)}
                 = ComposedIds(req.filters, req.q)
            /\ resp.search.total = Cardinality(ComposedIds(req.filters, req.q))

\* A search with two multi-value dimensions of two values each and a date
\* range, over the whole collection, that selects some records but not all.
C10_Witness ==
  /\ req.kind = "filter" /\ Cardinality(photos) = Len(FilterRows)
  /\ req.filters.tags = Some(<<beach, sunset>>)
  /\ req.filters.camera_make = Some(<<Apple, Canon>>)
  /\ req.filters.date.some /\ ~req.filters.people.some
  /\ resp.search.ok /\ resp.ids # {} /\ Cardinality(resp.ids) < Cardinality(photos)

(***************************************************************************)
(* The filesize filter on one record                                        *)
(***************************************************************************)
\* File sizes around the bounds of the ranges: 10^6 * hi + lo.
SizeHis == {0, 1, 2, 4, 5, 6, 9999, 10000}
SizeLos == {0, 1, 500000, 999999}

\* FilesizeRange
Ranges == {"small", "medium", "large"}

\* A record of the given size.
SizeRow(size) == [PhotoRow(1, 1) EXCEPT !.filesize = Some(size)]

SizeInit ==
  /\ \E hi \in SizeHis, lo \in SizeLos : photos = {SizeRow(Big(hi, lo))}
  /\ faces = {} /\ photo_tags = {}
  /\ req = NoRequest /\ resp = NoResponse /\ walk = <<>>
  /\ CodecIdle

\* The ids selected for request r by the repository and by build_filters.
Selected(r) ==
  /\ req' = r
  /\ resp' = [ids   |-> get_filtered_photo_ids(photos, faces, photo_tags, r.filters, r.q),
              built |-> {x.photo_id : x \in build_filters(photos, faces, photo_tags, r.filters, r.q)}]
  /\ UNCHANGED <<photos, faces, photo_tags, walk, cin, ctoken, cout, requests, sessions, written>>

\* A search filtered on one filesize range.
SizeFilter ==
  /\ req.kind = "idle"
  /\ \E range \in Ranges :
        Selected(Request("size", "repo", [NoFilters EXCEPT !.filesize_range = Some(range)],
                         [by |-> "shot_ts", dir |-> "desc"], None, None, None))

SizeNext == SizeFilter

SpecSize == SizeInit /\ [][SizeNext]_vars

\* The range a size belongs to when the ranges are half-open:
\* [0, 10^6), [10^6, 5 * 10^6), [5 * 10^6, 10^10).
SizeClass(size) ==
  IF BigLess(size, Big(1, 0)) THEN "small"
  ELSE IF BigLess(size, Big(5, 0)) THEN "medium"
  ELSE "large"

\* C11: a record whose filesize lies in [0, 10,000,000,000) is selected by the
\* filter of exactly one range, the range of SizeClass: 1,000,000 is medium
\* and not small, 5,000,000 is large and not medium. The repository's filter
\* and build_filters agree.
C11_FilesizeRangesPartition ==
  req.kind = "size" =>
    \A r \in photos :
      BigLess(r.filesize.v, Big(10000, 0)) =>
        /\ r.photo_id \in resp.ids <=> req.filters.filesize_range.v = SizeClass(r.filesize.v)
        /\ r.photo_id \in resp.built <=> req.filters.filesize_range.v = SizeClass(r.filesize.v)

\* A record of exactly 1,000,000 bytes is selected by the medium filter.
C11_Witness ==
  /\ req.kind = "size" /\ req.filters.filesize_range.v = "medium"
  /\ photos = {SizeRow(Big(1, 0))}
  /\ resp.ids = {PhotoIds[1]}

(***************************************************************************)
(* The date filter on one record                                            *)
(***************************************************************************)
\* The days 2020-06-01, 2020-06-02 and 2020-06-03 as a request writes them.
DayStr(k) == Str(<<"2", "0", "2", "0", "-", "0", "6", "-", "0">>) \o Digits(k, 1)

\* Stored capture timestamps (UTC wall clock) around the ends of 2020-06-02.
DateTsPool ==
  << DateTime(2020, 6, 1, 23, 59, 59, 999999, FALSE, 0),
     DateTime(2020, 6, 2, 0, 0, 0, 0, FALSE, 0),
     DateTime(2020, 6, 2, 12, 0, 0, 0, FALSE, 0),
     DateTime(2020, 6, 2, 23, 59, 59, 0, FALSE, 0),
     DateTime(2020, 6, 2, 23, 59, 59, 500000, FALSE, 0),
     DateTime(2020, 6, 3, 0, 0, 0, 0, FALSE, 0),
     DateTime(2020, 6, 3, 8, 30, 0, 0, FALSE, 0) >>

\* The sides of a DateFilter: absent, or one of the three days.
DateSides == {None} \cup {Some(DayStr(k)) : k \in 1..3}

DateInit ==
  /\ \E t \in 1..Len(DateTsPool) : photos = {[PhotoRow(1, 1) EXCEPT !.shot_ts = DateTsPool[t]]}
  /\ faces = {} /\ photo_tags = {}
  /\ req = NoRequest /\ resp = NoResponse /\ walk = <<>>
  /\ CodecIdle

\* A search filtered on a date range.
DateFilter ==
  /\ req.kind = "idle"
  /\ \E from \in DateSides, to \in DateSides :
        Selected(Request("date", "repo",
                         [NoFilters EXCEPT !.date = Some([from |-> from, to |-> to])],
                         [by |-> "shot_ts", dir |-> "desc"], None, None, None))

DateNext == DateFilter

SpecDate == DateInit /\ [][DateNext]_vars

\* Day number of the day a side names.
DayOf(side) ==
  DaysFromCivil(ParseInt(SubSeq(side, 1, 4)), ParseInt(SubSeq(side, 6, 7)), ParseInt(SubSeq(side, 9, 10)))

\* The capture instant of r falls on a UTC day d with from <= d <= to.
InDateRange(r, d) ==
  /\ d.from.some => DayOf(d.from.v) <= Instant(r.shot_ts)[1]
  /\ d.to.some => Instant(r.shot_ts)[1] <= DayOf(d.to.v)

\* C12: the date filter selects a record iff its capture instant falls on a
\* UTC day between from and to, both inclusive, a missing side being
\* unbounded; the repository's filter and build_filters agree.
C12_DateRangeInclusive ==
  req.kind = "date" =>
    \A r \in photos :
      /\ r.photo_id \in resp.ids <=> InDateRange(r, req.filters.date.v)
      /\ r.photo_id \in resp.built <=> InDateRange(r, req.filters.date.v)

(***************************************************************************)
(* Requests with long filter lists                                          *)
(***************************************************************************)
\* The longest filter list of a request.
MaxValues == 101

\* The list dimensions of SearchFilters, each with a value the collection holds.
ListDims ==
  [camera_make |-> Str(<<"A", "p", "p", "l", "e">>), extension |-> jpg,
   orientation |-> Str(<<"l", "a", "n", "d", "s", "c", "a", "p", "e">>),
   tags |-> beach, people |-> Str(<<"i", "n", "e", "s">>)]

\* n values: t001, t002, ... and last the value the collection holds.
ManyValues(n, held) == [i \in 1..n |-> IF i = n THEN held ELSE Str(<<"t">>) \o Digits(i, 3)]

\* A request whose filter holds a long list in one dimension.
LongListRequest ==
  /\ req.kind = "idle"
  /\ \E impl \in Impls, dim \in DOMAIN ListDims, n \in {MaxValues - 1, MaxValues} :
        Serve(Request("long", impl, [NoFilters EXCEPT ![dim] = Some(ManyValues(n, ListDims[dim]))],
                      [by |-> "shot_ts", dir |-> "desc"], None, None, None))

CapNext == LongListRequest

SpecCap == Init /\ [][CapNext]_vars

\* C13: a request with more than 100 values in a list dimension fails with
\* FilterTooLarge before any query is executed and returns no result page.
C13_FilterTooLargeRejected ==
  (/\ req.kind = "long"
   /\ \E dim \in DOMAIN ListDims : req.filters[dim].some /\ Len(req.filters[dim].v) > 100)
    => /\ ~resp.ok
       /\ resp.error = "FilterTooLarge"
       /\ resp.queries = <<>>

(***************************************************************************)
(* Searches with facets                                                     *)
(***************************************************************************)
\* Five records: a and b share a day, a content hash and a perceptual hash,
\* c shares the perceptual hash only, d and e have no hashes, e has no
\* capture timestamp.
FacetRows ==
  << [PhotoRow(1, 1) EXCEPT !.photo_id = Str(<<"a">>),
        !.shot_ts = DateTime(2020, 6, 1, 12, 0, 0, 0, FALSE, 0),
        !.sha256 = Some(Str(<<"s", "1">>)), !.phash = Some(Str(<<"p", "1">>))],
     [PhotoRow(1, 1) EXCEPT !.photo_id = Str(<<"b">>),
        !.shot_ts = DateTime(2020, 6, 1, 18, 0, 0, 0, FALSE, 0),
        !.sha256 = Some(Str(<<"s", "1">>)), !.phash = Some(Str(<<"p", "1">>))],
     [PhotoRow(1, 1) EXCEPT !.photo_id = Str(<<"c">>),
        !.shot_ts = DateTime(2020, 7, 1, 9, 0, 0, 0, FALSE, 0),
        !.sha256 = Some(Str(<<"s", "3">>)), !.phash = Some(Str(<<"p", "1">>))],
     [PhotoRow(1, 1) EXCEPT !.photo_id = Str(<<"d">>),
        !.shot_ts = DateTime(2021, 1, 15, 9, 0, 0, 0, FALSE, 0),
        !.sha256 = None, !.phash = None],
     [PhotoRow(1, 1) EXCEPT !.photo_id = Str(<<"e">>),
        !.shot_ts = NullTs, !.sha256 = None, !.phash = None] >>

\* Tags: sunset on more records than beach, and an empty tag on c.
FacetTags ==
  { [photo_id |-> Str(<<"a">>), tag |-> beach],
    [photo_id |-> Str(<<"a">>), tag |-> sunset],
    [photo_id |-> Str(<<"b">>), tag |-> sunset],
    [photo_id |-> Str(<<"c">>), tag |-> sunset],
    [photo_id |-> Str(<<"c">>), tag |-> <<>>],
    [photo_id |-> Str(<<"e">>), tag |-> beach] }

\* Faces: two of ines on a, an unidentified one and omar on b, an empty
\* person id on c, ines on d, omar on e.
FacetFaces ==
  { [face_id |-> 1, photo_id |-> Str(<<"a">>), person_id |-> Some(Str(<<"i", "n", "e", "s">>))],
    [face_id |-> 2, photo_id |-> Str(<<"a">>), person_id |-> Some(Str(<<"i", "n", "e", "s">>))],
    [face_id |-> 3, photo_id |-> Str(<<"b">>), person_id |-> None],
    [face_id |-> 4, photo_id |-> Str(<<"b">>), person_id |-> Some(Str(<<"o", "m", "a", "r">>))],
    [face_id |-> 5, photo_id |-> Str(<<"c">>), person_id |-> Some(<<>>)],
    [face_id |-> 6, photo_id |-> Str(<<"d">>), person_id |-> Some(Str(<<"i", "n", "e", "s">>))],
    [face_id |-> 7, photo_id |-> Str(<<"e">>), person_id |-> Some(Str(<<"o", "m", "a", "r">>))] }

FacetInit ==
  /\ \E ks \in SUBSET (1..Len(FacetRows)) :
        /\ photos = {FacetRows[k] : k \in ks}
        /\ faces = {f \in FacetFaces : \E k \in ks : f.photo_id = FacetRows[k].photo_id}
        /\ photo_tags = {t \in FacetTags : \E k \in ks : t.photo_id = FacetRows[k].photo_id}
  /\ req = NoRequest /\ resp = NoResponse /\ walk = <<>>
  /\ CodecIdle

\* The response to request r: the hits, and the facets. The service returns
\* both or raises; the repository computes the facets in a call of its own,
\* compute_facets(get_filtered_photo_ids(...)).
FacetResponse(r, hits) ==
  /\ req' = r
  /\ resp' = [hits   |-> hits,
              facets |-> IF r.impl = "repo"
                         THEN Some(compute_facets(photos, faces, photo_tags,
                                     get_filtered_photo_ids(photos, faces, photo_tags, r.filters, r.q)))
                         ELSE IF hits.ok
                         THEN Some(execute_facets(photos, faces, photo_tags, r, hits))
                         ELSE None]
  /\ UNCHANGED <<photos, faces, photo_tags, walk, cin, ctoken, cout, requests, sessions, written>>

\* A search for any page of the results: a limit, and no cursor or the
\* cursor of record b.
FacetSearch ==
  /\ req.kind = "idle"
  /\ \E impl \in Impls, f \in WalkFilters, limit \in Limits,
        cursor \in {None, Some(encode_cursor(FacetRows[2].shot_ts, FacetRows[2].photo_id))} :
        FacetResponse(Request("facet", impl, f, [by |-> "shot_ts", dir |-> "desc"], limit, cursor, None),
                      Call(photos, faces, photo_tags,
                           Request("facet", impl, f, [by |-> "shot_ts", dir |-> "desc"], limit, cursor, None)))

FacetNext == FacetSearch

SpecFacet == FacetInit /\ [][FacetNext]_vars

\* The entries of a value-count list, whatever their order.
Entries(values) == {values[i] : i \in 1..Len(values)}

\* C14: whatever the limit and the cursor of a request, the search returns
\* hits.total, the number of records matching the filters, and the date,
\* tags, people and duplicates facets of exactly that set of matching records.
C14_AggregatesIgnorePage ==
  req.kind = "facet" =>
    /\ resp.hits.ok
    /\ resp.hits.total = Cardinality(MatchingIds(req.filters))
    /\ resp.facets.some
    /\ resp.facets.v.date = date_facet(photos, MatchingIds(req.filters))
    /\ resp.facets.v.people = people_facet(faces, MatchingIds(req.filters))
    /\ Entries(resp.facets.v.tags) = Entries(tags_facet(photo_tags, MatchingIds(req.filters)))
    /\ resp.facets.v.duplicates = duplicates_facet(photos, MatchingIds(req.filters))


(***************************************************************************)
(* Page sizes: requests with small, absent and very large limits            *)
(***************************************************************************)
\* The largest page the feature suite accepts for an oversized limit.
LimitCap == 1000

PageLimits == {None, Some(1), Some(MaxLimit), Some(LimitCap), Some(LimitCap + 1)}

\* The positions a page request continues from.
PagePositions == {<<1, 1>>, <<2, 2>>, <<3, 3>>}

\* The response to a page request: the hits, and the limit the implementation
\* puts on its page query (page.limit or 50 in both implementations).
PageResponse(r, hits) ==
  /\ req' = r
  /\ resp' = [hits |-> hits, limit |-> EffectiveLimit(r.page)]
  /\ UNCHANGED <<photos, faces, photo_tags, walk, cin, ctoken, cout, requests, sessions, written>>

\* A request for the first page, any limit.
PageRequest ==
  /\ req.kind = "idle"
  /\ \E impl \in Impls, dir \in {"asc", "desc"}, limit \in PageLimits :
        PageResponse(Request("page", impl, NoFilters, [by |-> "shot_ts", dir |-> dir], limit, None, None),
                     Call(photos, faces, photo_tags,
                          Request("page", impl, NoFilters, [by |-> "shot_ts", dir |-> dir], limit, None, None)))

\* A request for the page after a position of the collection, any limit.
PageAfterRequest ==
  /\ req.kind = "idle"
  /\ \E impl \in Impls, dir \in {"asc", "desc"}, limit \in PageLimits, p \in PagePositions :
        PageResponse(Request("after", impl, NoFilters, [by |-> "shot_ts", dir |-> dir], limit,
                             Some(encode_cursor(TsPool[p[1]], PhotoIds[p[2]])), None),
                     Call(photos, faces, photo_tags,
                          Request("after", impl, NoFilters, [by |-> "shot_ts", dir |-> dir], limit,
                                  Some(encode_cursor(TsPool[p[1]], PhotoIds[p[2]])), None)))

PageNext == PageRequest \/ PageAfterRequest

SpecPage == Init /\ [][PageNext]_vars

\* Record r comes after position p in the direction dir of the (shot_ts,
\* photo_id) order, a missing shot_ts being the smallest.
ComesAfter(r, p, dir) ==
  LET before == \/ IsNull(r.shot_ts)
                \/ InstantLess(Instant(r.shot_ts), Instant(TsPool[p[1]]))
                \/ Instant(r.shot_ts) = Instant(TsPool[p[1]]) /\ StrLess(r.photo_id, PhotoIds[p[2]])
      same == ~IsNull(r.shot_ts) /\ Instant(r.shot_ts) = Instant(TsPool[p[1]])
                /\ r.photo_id = PhotoIds[p[2]]
  IN IF dir = "desc" THEN before ELSE ~before /\ ~same

\* The number of records of the collection that remain after the cursor of
\* the request (all of them when it has none).
RemainingAfter(r) ==
  IF ~r.page.cursor.some THEN Cardinality(photos)
  ELSE Cardinality({x \in photos : \E p \in PagePositions :
                      /\ r.page.cursor.v = encode_cursor(TsPool[p[1]], PhotoIds[p[2]])
                      /\ ComesAfter(x, p, r.sort.dir)})

\* C15: the limit put on the page query is the requested limit, or 50 when
\* none is requested, and never more than the cap; a page that is returned
\* holds min(that limit, records remaining after the cursor) items, hence at
\* most hits.total.
C15_PageSizeCapped ==
  req.kind \in {"page", "after"} =>
    /\ resp.limit <= LimitCap
    /\ resp.limit = IF req.page.limit.some THEN req.page.limit.v ELSE 50
    /\ resp.hits.ok =>
         /\ Len(resp.hits.items) =
              IF resp.limit <= RemainingAfter(req) THEN resp.limit ELSE RemainingAfter(req)
         /\ Len(resp.hits.items) <= resp.hits.total


\* The values of a list of facet nodes ascend strictly.
Ascending(nodes) == \A i, j \in 1..Len(nodes) : i < j => nodes[i].value < nodes[j].value

\* C16: in the date facet of a response every year's count is the sum of its
\* months' counts, every month's count the sum of its days' counts, the years'
\* counts add up to the number of matching records that have a timestamp, and
\* years, months and days are listed in strictly ascending order.
C16_DateHierarchyConserves ==
  (req.kind = "facet" /\ resp.facets.some) =>
    LET years == resp.facets.v.date.years
    IN /\ SumCounts(years) =
            Cardinality({r \in photos : r.photo_id \in MatchingIds(req.filters) /\ ~IsNull(r.shot_ts)})
       /\ Ascending(years)
       /\ \A i \in 1..Len(years) :
            /\ SumCounts(years[i].months) = years[i].count
            /\ Ascending(years[i].months)
            /\ \A j \in 1..Len(years[i].months) :
                 /\ SumCounts(years[i].months[j].days) = years[i].months[j].count
                 /\ Ascending(years[i].months[j].days)

\* Two years, the first with two months, one of them with two records on the
\* same day, and a matching record without timestamp.
C16_Witness ==
  /\ req.kind = "facet" /\ resp.facets.some /\ ~req.filters.tags.some
  /\ \E r \in photos : IsNull(r.shot_ts)
  /\ Len(resp.facets.v.date.years) = 2
  /\ resp.facets.v.date.years[1].count = 3
  /\ Len(resp.facets.v.date.years[1].months) = 2
  /\ resp.facets.v.date.years[1].months[1].days[1].count = 2


\* The matching records of the request that have no capture timestamp.
MissingTs(r) == {x \in photos : x.photo_id \in MatchingIds(r.filters) /\ IsNull(x.shot_ts)}

\* The number of matching records that carry tag t, and that show person p.
Carrying(f, t) == Cardinality({x \in MatchingIds(f) : [photo_id |-> x, tag |-> t] \in photo_tags})
Showing(f, p) ==
  Cardinality({x \in MatchingIds(f) : \E face \in faces : face.photo_id = x /\ face.person_id = Some(p)})

\* C17: a search whose first page is large enough for all matching records,
\* some of them without capture timestamp, completes; those records are
\* counted in hits.total and returned as items, are in no node of the date
\* facet, and are counted in the tags, people and duplicates facets.
C17_MissingTimestampOnlyAffectsDateFacet ==
  (/\ req.kind = "facet" /\ ~req.page.cursor.some
   /\ EffectiveLimit(req.page) >= Cardinality(MatchingIds(req.filters))
   /\ MissingTs(req) # {}) =>
    /\ resp.hits.ok
    /\ resp.hits.total = Cardinality(MatchingIds(req.filters))
    /\ \A x \in MissingTs(req) :
         \E i \in 1..Len(resp.hits.items) : resp.hits.items[i].photo_id = x.photo_id
    /\ resp.facets.some
    /\ SumCounts(resp.facets.v.date.years) =
         Cardinality(MatchingIds(req.filters)) - Cardinality(MissingTs(req))
    /\ \A x \in MissingTs(req) :
         /\ \A t \in {y \in photo_tags : y.photo_id = x.photo_id} :
              [value |-> t.tag, count |-> Carrying(req.filters, t.tag)] \in Entries(resp.facets.v.tags)
         /\ \A face \in {y \in faces : y.photo_id = x.photo_id /\ Truthy(y.person_id)} :
              [value |-> face.person_id.v, count |-> Showing(req.filters, face.person_id.v)]
                \in Entries(resp.facets.v.people)
    /\ resp.facets.v.duplicates = duplicates_facet(photos, MatchingIds(req.filters))


\* The person ids, neither null nor empty, of the faces of the matching records.
PersonsShown(f) ==
  {face.person_id.v : face \in {y \in faces : /\ y.photo_id \in MatchingIds(f)
                                              /\ y.person_id.some /\ y.person_id.v # <<>>}}

\* C18: the people facet of a response has exactly one entry for every person
\* named by a face of a matching record, its count is the number of distinct
\* matching records with a face of that person, and no entry stands for a
\* null or empty person id.
C18_PeopleFacetCountsRecords ==
  (req.kind = "facet" /\ resp.facets.some) =>
    LET people == resp.facets.v.people
    IN /\ {people[i].value : i \in 1..Len(people)} = PersonsShown(req.filters)
       /\ Len(people) = Cardinality(PersonsShown(req.filters))
       /\ \A i \in 1..Len(people) : people[i].count = Showing(req.filters, people[i].value)

\* A matching record with two faces of the same person, and matching faces
\* with a null and with an empty person id.
C18_Witness ==
  /\ req.kind = "facet" /\ resp.facets.some /\ ~req.filters.tags.some
  /\ \E f1, f2 \in faces : f1.face_id # f2.face_id /\ f1.photo_id = f2.photo_id
                             /\ f1.person_id = f2.person_id /\ Truthy(f1.person_id)
  /\ \E f1 \in faces : ~f1.person_id.some
  /\ \E f1 \in faces : f1.person_id = Some(<<>>)
  /\ Len(resp.facets.v.people) = 2
  /\ resp.facets.v.people[1].count = 2


\* The tags, other than the empty string, carried by the matching records.
TagsCarried(f) ==
  {t.tag : t \in {y \in photo_tags : y.photo_id \in MatchingIds(f) /\ y.tag # <<>>}}

\* C19: the tags facet of a response has exactly one entry for every
\* non-empty tag carried by a matching record, its count is the number of
\* distinct matching records carrying the tag, the entries are in order of
\* non-increasing count, and the total_count of TagsFacet is the sum of the counts.
C19_TagsFacetSortedWithoutEmpty ==
  (req.kind = "facet" /\ resp.facets.some) =>
    LET tags == resp.facets.v.tags
    IN /\ {tags[i].value : i \in 1..Len(tags)} = TagsCarried(req.filters)
       /\ Len(tags) = Cardinality(TagsCarried(req.filters))
       /\ \A i \in 1..Len(tags) : tags[i].count = Carrying(req.filters, tags[i].value)
       /\ \A i, j \in 1..Len(tags) : i < j => tags[i].count >= tags[j].count
       /\ TagsFacet_compute(photo_tags, MatchingIds(req.filters)).total_count
            = SumCounts(resp.facets.v.tags)


\* The hash values of the column that more than one matching record holds.
SharedHashes(f, column) ==
  {h \in {x[column] : x \in {y \in photos : y.photo_id \in MatchingIds(f) /\ y[column].some}} :
     Cardinality({y \in photos : y.photo_id \in MatchingIds(f) /\ y[column] = h}) > 1}

\* C20: duplicates.exact of a response is the number of sha256 values that
\* more than one matching record holds and duplicates.near the number of such
\* phash values; both are 0 when no hash value is shared.
C20_DuplicatesCountSharedHashes ==
  (req.kind = "facet" /\ resp.facets.some) =>
    /\ resp.facets.v.duplicates.exact = Cardinality(SharedHashes(req.filters, "sha256"))
    /\ resp.facets.v.duplicates.near = Cardinality(SharedHashes(req.filters, "phash"))


(***************************************************************************)
(* Searches during which the query of one facet fails                       *)
(***************************************************************************)
FacetNames == {"date", "people", "tags", "duplicates"}

\* The facets dictionary of compute_facets and of SearchService.execute when
\* the query of the facet named failing raises: neither function has a
\* handler, so the exception leaves it and no dictionary is built.
FacetsOrRaise(failing, facets) ==
  IF failing \in FacetNames THEN [ok |-> FALSE, error |-> "OperationalError", v |-> None]
  ELSE [ok |-> TRUE, error |-> "", v |-> Some(facets)]

\* SearchService.execute returns hits and facets in one SearchResponse, so an
\* exception of a facet loses the hits too; the repository's search_photos and
\* compute_facets are two calls, and the hits of the first stay.
FailingResponse(r, failing, hits, facets) ==
  /\ req' = r
  /\ resp' = [hits   |-> IF r.impl = "service" /\ hits.ok /\ ~facets.ok
                         THEN Raised(facets.error, hits.queries, hits.decodes)
                         ELSE hits,
              facets |-> facets.v,
              failing |-> failing]
  /\ UNCHANGED <<photos, faces, photo_tags, walk, cin, ctoken, cout, requests, sessions, written>>

\* A search during which the database fails the query of one facet.
FailingSearch ==
  /\ req.kind = "idle"
  /\ \E impl \in Impls, f \in WalkFilters, failing \in FacetNames :
        FailingResponse(Request("failing", impl, f, [by |-> "shot_ts", dir |-> "desc"], None, None, None),
                        failing,
                        Call(photos, faces, photo_tags,
                             Request("failing", impl, f, [by |-> "shot_ts", dir |-> "desc"], None, None, None)),
                        FacetsOrRaise(failing,
                                      compute_facets(photos, faces, photo_tags,
                                                     get_filtered_photo_ids(photos, faces, photo_tags, f, None))))

FailingNext == FailingSearch

SpecFailing == FacetInit /\ [][FailingNext]_vars

\* The empty or zero value of a facet.
EmptyFacet(name) ==
  IF name = "date" THEN [years |-> <<>>]
  ELSE IF name = "duplicates" THEN [exact |-> 0, near |-> 0]
  ELSE <<>>

\* C21: when the computation of one facet raises during a search, the hits are
\* those of the same search without the failure, the failed facet is its
\* empty or zero value, and the other facets are computed as usual.
C21_FacetFailureIsolated ==
  req.kind = "failing" =>
    /\ resp.hits = Call(photos, faces, photo_tags, req)
    /\ resp.facets.some
    /\ resp.facets.v[resp.failing] = EmptyFacet(resp.failing)
    /\ \A name \in FacetNames \ {resp.failing} :
         resp.facets.v[name] =
           compute_facets(photos, faces, photo_tags, MatchingIds(req.filters))[name]


Members(list) == {list[i] : i \in 1..Len(list)}

\* C23: every item of a returned page carries exactly the tags of its record,
\* each person named by a face of the record exactly once (unidentified faces
\* excluded), and one face entry for every face of the record.
C23_ItemsHydratedFromOwnRecord ==
  (req.kind # "idle" /\ resp.ok) =>
    \A i \in 1..Len(resp.items) :
      LET item  == resp.items[i]
          own   == {f \in faces : f.photo_id = item.photo_id}
          named == {f.person_id.v : f \in {x \in own : x.person_id.some /\ x.person_id.v # <<>>}}
      IN /\ Members(item.tags) = {t.tag : t \in {x \in photo_tags : x.photo_id = item.photo_id}}
         /\ Len(item.tags) = Cardinality(Members(item.tags))
         /\ Members(item.people) = named
         /\ Len(item.people) = Cardinality(named)
         /\ Len(item.faces) = Cardinality(own)
         /\ \A p \in {f.person_id : f \in own} :
              Cardinality({k \in 1..Len(item.faces) : item.faces[k].person_id = p})
                = Cardinality({f \in own : f.person_id = p})


(***************************************************************************)
(* app/dependencies.py and app/routers/search.py: the session of a request  *)
(***************************************************************************)
MaxRequests == 3

\* db = _SessionLocal(): a new session, open and never closed so far.
_SessionLocal(ss) == Append(ss, [open |-> TRUE, closes |-> 0])

\* get_db with the fault of closing after the yield without try/finally: an
\* exception thrown into the generator at the yield skips db.close().
get_db_without_finally(s, outcome) ==
  IF outcome = "raised" THEN s ELSE [open |-> FALSE, closes |-> s.closes + 1]

\* get_db from the yield on: whether the generator is resumed after the
\* handler returned or the handler's exception is thrown into it, the
\* finally clause runs db.close().
get_db(s, outcome) == [open |-> FALSE, closes |-> s.closes + 1]

SessionInit ==
  /\ photos = {} /\ faces = {} /\ photo_tags = {}
  /\ req = NoRequest /\ resp = NoResponse /\ walk = <<>>
  /\ cin = [ts |-> TsPool[1], pid |-> <<>>]
  /\ ctoken = [some |-> FALSE, v |-> <<>>, encoded |-> FALSE]
  /\ cout = [called |-> FALSE, res |-> [ok |-> FALSE, error |-> ""]]
  /\ requests = [r \in 1..MaxRequests |-> [pc |-> "new", db |-> 0, outcome |-> "none"]]
  /\ sessions = <<>> /\ written = {}

\* Depends(get_db) of request r: the generator runs up to its yield.
Acquire(r) ==
  /\ requests[r].pc = "new"
  /\ sessions' = _SessionLocal(sessions)
  /\ requests' = [requests EXCEPT ![r] = [pc |-> "yielded", db |-> Len(sessions) + 1, outcome |-> "none"]]
  /\ UNCHANGED <<photos, faces, photo_tags, req, resp, walk, cin, ctoken, cout, written>>

\* The endpoint of request r runs with its session and returns or raises
\* (search_endpoint raises at SearchService(repo=repo), a keyword the
\* constructor does not have; a handler given a working service returns).
Handle(r) ==
  /\ requests[r].pc = "yielded"
  /\ \E outcome \in {"returned", "raised"} :
        requests' = [requests EXCEPT ![r].pc = "handled", ![r].outcome = outcome]
  /\ UNCHANGED <<photos, faces, photo_tags, req, resp, walk, cin, ctoken, cout, sessions, written>>

\* The end of request r: the generator of get_db is finished.
Release(r) ==
  /\ requests[r].pc = "handled"
  /\ sessions' = [sessions EXCEPT ![requests[r].db] = get_db(@, requests[r].outcome)]
  /\ requests' = [requests EXCEPT ![r].pc = "done"]
  /\ UNCHANGED <<photos, faces, photo_tags, req, resp, walk, cin, ctoken, cout, written>>

SessionNext == \E r \in 1..MaxRequests : Acquire(r) \/ Handle(r) \/ Release(r)

SpecSession == SessionInit /\ [][SessionNext]_vars

\* C24: every request that has got a session has one of its own; no session
\* is closed more than once; and the session of a request that has ended,
\* whether its handler returned or raised, is closed, exactly once.
C24_SessionClosedOncePerRequest ==
  \A r \in DOMAIN requests :
    requests[r].pc # "new" =>
      /\ requests[r].db \in 1..Len(sessions)
      /\ \A q \in DOMAIN requests : (q # r /\ requests[q].pc # "new") => requests[q].db # requests[r].db
      /\ sessions[requests[r].db].closes <= 1
      /\ sessions[requests[r].db].open = (requests[r].pc # "done")
      /\ requests[r].pc = "done" => sessions[requests[r].db].closes = 1

\* A request whose handler raised has ended and another whose handler
\* returned has ended, while a third still holds its open session.
C24_Witness ==
  /\ Len(sessions) = MaxRequests
  /\ \E r \in DOMAIN requests : requests[r].pc = "done" /\ requests[r].outcome = "raised"
  /\ \E r \in DOMAIN requests : requests[r].pc = "done" /\ requests[r].outcome = "returned"
  /\ \E r \in DOMAIN requests : requests[r].pc = "handled" /\ sessions[requests[r].db].open


(***************************************************************************)
(* Cursor walks whose continuation requests carry the cursor only           *)
(***************************************************************************)
\* SearchRequest(page=PageSpec(cursor=cursor)): every other field at its default.
CursorOnly(impl, cursor) ==
  Request("next", impl, NoFilters, [by |-> "shot_ts", dir |-> "desc"], Some(50), cursor, None)

\* The first request of the walk: a tag filter, descending shot_ts, a limit.
TaggedFirstPage ==
  /\ req.kind = "idle"
  /\ \E impl \in Impls, limit \in 1..MaxLimit :
        Serve(Request("first", impl, [NoFilters EXCEPT !.tags = Some(<<beach>>)],
                      [by |-> "shot_ts", dir |-> "desc"], Some(limit), None, None))

\* The next request of the walk: nothing but the cursor just returned.
CursorOnlyPage ==
  /\ req.kind \in {"first", "next"}
  /\ resp.ok /\ resp.next_cursor.some
  /\ Serve(CursorOnly(req.impl, resp.next_cursor))

CursorOnlyNext == TaggedFirstPage \/ CursorOnlyPage

SpecCursorOnly == Init /\ [][CursorOnlyNext]_vars

\* C25: on a walk that starts with a tag filter and continues with the
\* returned cursors alone, every item of every page carries the tag and no
\* photo id is returned twice.
C25_FilterSurvivesCursorOnlyWalk ==
  InWalk =>
    /\ \A i \in 1..Len(WalkItems) : beach \in Members(WalkItems[i].tags)
    /\ Cardinality(WalkIds) = Len(WalkItems)


(***************************************************************************)
(* app/services/search_service.py: construction and the repository calls    *)
(***************************************************************************)
\* SearchService(<keyword>=...): __init__(self, db) takes a session, keeps it
\* and builds a PhotosRepository of its own; any other keyword is a TypeError.
SearchService(keyword) ==
  IF keyword = "db" THEN [ok |-> TRUE, error |-> "", holds_db |-> TRUE]
  ELSE [ok |-> FALSE, error |-> "TypeError", holds_db |-> FALSE]

\* The methods of the repository that execute calls, in order, on a request
\* without cursor.
execute_calls == <<"count_total", "select_hits", "hydrate_items">>

\* What a caller gets who constructs the service with the keyword and runs
\* execute on request r.
ConstructAndExecute(keyword, r, svc) ==
  /\ req' = r
  /\ resp' = [keyword |-> keyword,
              service |-> svc,
              calls   |-> IF svc.ok THEN execute_calls ELSE <<>>,
              hits    |-> IF svc.ok THEN execute(photos, faces, photo_tags, r)
                          ELSE Raised(svc.error, <<>>, 0),
              facets  |-> IF svc.ok /\ execute(photos, faces, photo_tags, r).ok
                          THEN Some(execute_facets(photos, faces, photo_tags, r, NoResponse))
                          ELSE None]
  /\ UNCHANGED <<photos, faces, photo_tags, walk, cin, ctoken, cout, requests, sessions, written>>

\* search_endpoint's SearchService(repo=repo), or SearchService(db=db), and
\* execute on a first-page request.
DelegatingSearch ==
  /\ req.kind = "idle"
  /\ \E keyword \in {"repo", "db"}, f \in WalkFilters, sort \in Sorts, limit \in Limits :
        ConstructAndExecute(keyword, Request("delegate", "service", f, sort, limit, None, None),
                            SearchService(keyword))

DelegationNext == DelegatingSearch

SpecDelegation == Init /\ [][DelegationNext]_vars

\* C26: a SearchService is constructed from a repository and holds no
\* session; execute calls search_photos, get_filtered_photo_ids and
\* compute_facets, once each and in that order; the hits of the response are
\* what search_photos returns for the request's filters, sort, page and q,
\* and the facets what compute_facets returns for the filtered ids.
C26_ServiceDelegatesToRepository ==
  req.kind = "delegate" =>
    /\ resp.keyword = "repo" /\ resp.service.ok /\ ~resp.service.holds_db
    /\ resp.calls = <<"search_photos", "get_filtered_photo_ids", "compute_facets">>
    /\ resp.hits = search_photos(photos, faces, photo_tags, req.filters, req.sort, req.page, req.q)
    /\ resp.hits.ok =>
         resp.facets = Some(compute_facets(photos, faces, photo_tags,
                              get_filtered_photo_ids(photos, faces, photo_tags, req.filters, req.q)))


(***************************************************************************)
(* Cursor walks of search_photos with writes between the page requests      *)
(***************************************************************************)
MaxWrites == 1

\* The first page of a walk of search_photos: sort by shot_ts, no filters.
WalkFirstPage ==
  /\ req.kind = "idle"
  /\ \E dir \in {"asc", "desc"}, limit \in 1..MaxLimit :
        Serve(Request("first", "repo", NoFilters, [by |-> "shot_ts", dir |-> dir], Some(limit), None, None))

\* Another client inserts a photo, under an id not used during the walk,
\* between two page requests.
InsertPhoto ==
  /\ InWalk /\ Cardinality(written) < MaxWrites
  /\ \E k \in 1..Len(PhotoIds), t \in 1..4 :
        /\ PhotoIds[k] \notin written
        /\ \A r \in photos : r.photo_id # PhotoIds[k]
        /\ photos' = photos \cup {PhotoRow(k, t)}
        /\ written' = written \cup {PhotoIds[k]}
  /\ UNCHANGED <<faces, photo_tags, req, resp, walk, cin, ctoken, cout, requests, sessions>>

\* Another client deletes a photo between two page requests of the walk.
DeletePhoto ==
  /\ InWalk /\ Cardinality(written) < MaxWrites
  /\ \E r \in photos :
        /\ photos' = photos \ {r}
        /\ written' = written \cup {r.photo_id}
  /\ UNCHANGED <<faces, photo_tags, req, resp, walk, cin, ctoken, cout, requests, sessions>>

WritesNext == WalkFirstPage \/ NextPage \/ InsertPhoto \/ DeletePhoto

SpecWrites == Init /\ [][WritesNext]_vars

\* C27: while photos are inserted and deleted between the pages of a walk,
\* no record is returned on two pages, and once the walk has reached its
\* empty page every record that was there unchanged during the whole walk
\* has been returned.
C27_WalkStableUnderWrites ==
  InWalk =>
    /\ Cardinality(WalkIds) = Len(WalkItems)
    /\ (resp.ok /\ resp.items = <<>>) =>
         \A r \in photos : r.photo_id \notin written => r.photo_id \in WalkIds


\* The request has a filter that is satisfied by related rows: has_faces,
\* people, tags or a text query.
Existential(r) ==
  \/ r.filters.has_faces = Some(TRUE) \/ Present(r.filters.people)
  \/ Present(r.filters.tags) \/ r.q.some

\* C28: under has_faces, people, tags or text-query filters a record appears
\* once in the filtered ids however many of its faces and tags match, and a
\* search that returns lists no id twice and counts every selected record
\* once in its total.
C28_ExistentialFiltersKeepCardinality ==
  (req.kind = "filter" /\ Existential(req)) =>
    /\ resp.ids = ComposedIds(req.filters, req.q)
    /\ resp.search.ok =>
         /\ \A i, j \in 1..Len(resp.search.items) :
              i # j => resp.search.items[i].photo_id # resp.search.items[j].photo_id
         /\ resp.search.total = Len(resp.search.items)
         /\ resp.search.total = Cardinality(resp.ids)

\* Record a with two faces of a person of the filter and record b with two
\* tags of the filter are both selected, each once.
C28_Witness ==
  /\ req.kind = "filter"
  /\ req.filters.has_faces = Some(TRUE)
  /\ req.filters.people = Some(<<ines, omar>>)
  /\ req.filters.tags = Some(<<beach, sunset>>)
  /\ resp.search.ok /\ resp.search.total = 2
  /\ resp.ids = {Str(<<"a">>), Str(<<"b">>)}


(***************************************************************************)
(* Requests whose filters hold falsy values                                 *)
(***************************************************************************)
\* Each dimension absent or falsy: an empty list, has_faces false; the
\* orientation absent or set to a value.
FalsyPool ==
  [ date           : {None},
    camera_make    : {None, Some(<<>>)},
    extension      : {None, Some(<<>>)},
    orientation    : {None, Some(<<portrait>>)},
    filesize_range : {None},
    has_faces      : {None, Some(FALSE)},
    tags           : {None, Some(<<>>)},
    people         : {None, Some(<<>>)} ]

\* No text query, the empty one, and one of whitespace only.
FalsyQueries == {None, Some(<<>>), Some(<<32, 9>>)}

\* A search whose filters and text query are absent or falsy.
FalsyFilter ==
  /\ req.kind = "idle"
  /\ \E f \in FalsyPool, q \in FalsyQueries :
        Selected(Request("falsy", "repo", f, [by |-> "shot_ts", dir |-> "desc"], None, None, q))

FalsyNext == FalsyFilter

SpecFalsy == FilterInit /\ [][FalsyNext]_vars

\* C29: a request whose list dimensions are empty lists, whose has_faces is
\* false and whose text query is empty or whitespace selects, in both
\* implementations, the records the same request selects with those
\* dimensions left out.
C29_FalsyValuesAreUnconstrained ==
  req.kind = "falsy" =>
    /\ resp.ids = AloneIds([NoFilters EXCEPT !.orientation = req.filters.orientation], None)
    /\ resp.built = resp.ids

\* Every dimension falsy at once over the whole collection: all records are
\* selected, those with faces included.
C29_Witness ==
  /\ req.kind = "falsy"
  /\ req.filters.camera_make = Some(<<>>) /\ req.filters.extension = Some(<<>>)
  /\ req.filters.tags = Some(<<>>) /\ req.filters.people = Some(<<>>)
  /\ req.filters.has_faces = Some(FALSE) /\ req.q = Some(<<32, 9>>)
  /\ ~req.filters.orientation.some
  /\ Cardinality(photos) = Len(FilterRows)
  /\ Cardinality(resp.ids) = Len(FilterRows)
  /\ \E x \in resp.ids : \E f \in faces : f.photo_id = x


(***************************************************************************)
(* Cursor walks of search_photos that are followed to their end             *)
(***************************************************************************)
WalkNext == WalkFirstPage \/ NextPage

SpecWalk == Init /\ [][WalkNext]_vars

\* The last item of page k of the walk.
LastOf(k) == walk[k][Len(walk[k])]

\* C30: every request of a walk over a static collection returns; its
\* response has no cursor exactly when its page is empty, so every page
\* before the last is non-empty and the null cursor comes with the first
\* empty page; each cursor is positioned strictly further along the requested
\* order than the one before; and the walk takes at most one request more
\* than there are matching records.
C30_WalkTerminates ==
  InWalk =>
    /\ resp.ok
    /\ resp.next_cursor.some <=> Len(resp.items) > 0
    /\ Len(walk) <= Cardinality(MatchingIds(req.filters)) + 1
    /\ (Len(walk) >= 2 /\ Len(resp.items) > 0) =>
          IF req.sort.dir = "asc"
          THEN ItemKeyLess(LastOf(Len(walk) - 1), LastOf(Len(walk)))
          ELSE ItemKeyLess(LastOf(Len(walk)), LastOf(Len(walk) - 1))

====
